---- MODULE Spec2Model ----
(***************************************************************************)
(* A model of gatling's cgpu layer (src/src/cgpu/src/cgpu.c): the typed    *)
(* resource stores, the create/destroy operations with their rollback      *)
(* chains, and the per-dispatch image layout tracking.                     *)
(*                                                                         *)
(* A handle is a natural number; 0 is CGPU_INVALID_HANDLE.  Every API      *)
(* function is one action.  The environment (the caller and the native     *)
(* graphics API) is the nondeterminism: which handles the caller passes    *)
(* and which native call, if any, fails.                                   *)
(***************************************************************************)
EXTENDS Integers, Sequences, FiniteSets, TLC

(***************************************************************************)
(* Bounds of the model.                                                    *)
(***************************************************************************)
\* slots the device store may grow to
MaxDevices == 1
\* slots every other store may grow to
MaxSlots == 2
\* slots all stores other than the device store may hold together, when every operation that creates or destroys runs
MaxTotalSlots == 2
\* the same, when the operations that use the resources run
MaxUsedSlots == 3
\* slots a store may grow to then
MaxUsed == 1
\* slots all stores other than the device store may hold together, when the operations that track image layouts run
MaxTrackedSlots == 6
\* slots the image store may grow to then
MaxTrackedImages == 2
\* resources of a shader reflection, when the descriptor pool is sized
MaxPoolResources == 3
\* the live fences of SpecFence
MaxFences == 2

(***************************************************************************)
(* Program constants.                                                      *)
(***************************************************************************)
CGPU_INVALID_HANDLE == 0
MAX_PHYSICAL_DEVICES == 32
MAX_DESCRIPTOR_SET_LAYOUT_BINDINGS == 128
MAX_TIMESTAMP_QUERIES == 32

Kinds == {"device", "shader", "buffer", "image", "sampler", "pipeline", "command_buffer", "fence"}

Cap(kind) == IF kind = "device" THEN MaxDevices ELSE MaxSlots

\* the handle values that name a slot the store may hand out
SlotArgs(kind) == 1..Cap(kind)

Range(s) == {s[i] : i \in 1..Len(s)}

VARIABLES
  store,            \* store[kind]: the resource store of that kind (hwm, free list)
  idevice,          \* idevice[slot]: the device slot (limits)
  ishader,          \* ishader[slot]: the shader slot (reflection)
  ipipeline,        \* ipipeline[slot]: the pipeline slot (shader, image_resources)
  icommand_buffer,  \* icommand_buffer[slot]: the command buffer slot (device, pipeline)
  iimage,           \* iimage[slot]: the image slot (layout, access_mask)
  ifence,           \* ifence[slot]: the fence slot (the state of its native fence: signaled, pending on the queue)
  thread,           \* thread[t]: the position of recording thread t inside cgpu_cmd_dispatch, and its locals
  stager,           \* the staging buffer object of gi (GiStager behind s_stager): whether it exists, its members
  staging,          \* the call of GiStager::stage in progress: its position, its locals and the copy chunks it has recorded
  render,           \* giRender and the invalidation flag: s_resetSampleOffset, the sample offset of the render buffer, the position of the rendering thread
  renderBuffer,     \* the GiRenderBuffer of the application: whether it exists, its members
  pass,             \* the HdGatlingRenderPass, the versions of its render index and delegate, the render buffers of the AOVs
  bound,            \* bound[slot]: the image bindings the caller last passed to a successful cgpu_update_resources for the pipeline in that slot
  last              \* the last API call: its name, arguments, result, out-parameter and native calls

vars == <<store, idevice, ishader, ipipeline, icommand_buffer, iimage, ifence, thread, stager, staging, render, renderBuffer, pass, bound, last>>

slots == <<idevice, ishader, ipipeline, icommand_buffer, iimage, ifence, thread, stager, staging, render, renderBuffer, pass, bound>>

(***************************************************************************)
(* Resource store (resource_store.h; its implementation is not part of     *)
(* the sources, the contract is section 4.1 of the specification).         *)
(* hwm is the high-water mark: slots 1..hwm have been handed out at least  *)
(* once.  free is the stack of reclaimed slots.                            *)
(***************************************************************************)
resource_store_create == [hwm |-> 0, free |-> <<>>]

\* the handle the next allocation returns
resource_store_next_handle(s) == IF Len(s.free) > 0 THEN s.free[Len(s.free)] ELSE s.hwm + 1

\* an allocation that grows the store whatever the free list holds
resource_store_create_handle_grow(s) == [s EXCEPT !.hwm = s.hwm + 1]

\* the store after that allocation
resource_store_create_handle(s) == IF Len(s.free) > 0 THEN [s EXCEPT !.free = SubSeq(s.free, 1, Len(s.free) - 1)] ELSE [s EXCEPT !.hwm = s.hwm + 1]

resource_store_get(s, handle) == handle # CGPU_INVALID_HANDLE /\ handle <= s.hwm /\ handle \notin Range(s.free)

resource_store_free_handle(s, handle) == [s EXCEPT !.free = Append(s.free, handle)]

\* the handles of a store that resolve
Live(s) == {h \in 1..s.hwm : resource_store_get(s, h)}

TotalSlots == store["shader"].hwm + store["buffer"].hwm + store["image"].hwm + store["sampler"].hwm + store["pipeline"].hwm + store["command_buffer"].hwm + store["fence"].hwm

\* the model's cap on growth: an allocation that must grow the store is not taken at the cap
CanAllocate(kind) == Len(store[kind].free) > 0 \/ store[kind].hwm < Cap(kind)

\* the model's cap on the slots of one store and of all stores together
Fits(kind, cap, total) == Len(store[kind].free) > 0 \/ (store[kind].hwm < cap /\ TotalSlots < total)

(***************************************************************************)
(* CGPU_RESOLVE_HANDLE: one resolver per store.                            *)
(***************************************************************************)
cgpu_resolve(kind, handle) == resource_store_get(store[kind], handle)

(***************************************************************************)
(* The record of an API call, kept in last.                                *)
(*   args    the handles the caller passed, <<kind, handle>> each           *)
(*   handle  the handle written to the out-parameter (create), the handle  *)
(*           destroyed (destroy), 0 otherwise                              *)
(*   phase   the construction phase that failed, "none" otherwise          *)
(*   calls   the native and store calls made, in order                     *)
(*   barriers the image memory barriers handed to vkCmdPipelineBarrier      *)
(*   pre     the handles of the kind's store that resolved before the call *)
(*   was     what the image slot the call hands out held before the call   *)
(*   pool_sizes the size table handed to vkCreateDescriptorPool            *)
(*   input   the values the call was given that are not handles            *)
(*   reused  the handle a create hands out was on the free list: its slot  *)
(*           had been handed out and freed before                          *)
(***************************************************************************)
IsDestroyOp(op) == op \in {"cgpu_destroy_device", "cgpu_destroy_shader", "cgpu_destroy_buffer", "cgpu_destroy_image", "cgpu_destroy_sampler", "cgpu_destroy_pipeline", "cgpu_destroy_command_buffer", "cgpu_destroy_fence"}

IsCreateOp(op) == op \in {"cgpu_create_device", "cgpu_create_shader", "cgpu_create_buffer", "cgpu_create_image", "cgpu_create_sampler", "cgpu_create_pipeline", "cgpu_create_command_buffer", "cgpu_create_fence"}

Ret(op, kind, args, result, handle, phase, calls) ==
  [op |-> op, kind |-> kind, args |-> args, result |-> result, handle |-> handle, phase |-> phase, calls |-> calls,
   barriers |-> <<>>,
   pre |-> IF kind \in Kinds THEN Live(store[kind]) ELSE {},
   was |-> [layout |-> "NONE", access_mask |-> {}],
   pool_sizes |-> <<>>,
   input |-> <<>>,
   reused |-> kind \in Kinds /\ IsCreateOp(op) /\ handle \in Range(store[kind].free)]

Create(obj) == <<"create", obj>>
Destroy(obj) == <<"destroy", obj>>
CreateHandle(kind) == <<"create_handle", kind>>
FreeHandle(kind) == <<"free_handle", kind>>

Creates(objs) == [i \in 1..Len(objs) |-> Create(objs[i])]

\* a call that changes nothing but last
Return(r) == /\ last' = r
             /\ UNCHANGED <<store, slots>>

InvalidHandle(op, kind, args) == Return(Ret(op, kind, args, "CGPU_FAIL_INVALID_HANDLE", 0, "none", <<>>))

(***************************************************************************)
(* The create idiom: allocate the handle, resolve the slot, construct; a   *)
(* failure branch runs its cleanup calls and returns its code.  f is the   *)
(* branch taken: [result, created, cleanup]; created are the native        *)
(* objects constructed before the failing step, cleanup the calls of the   *)
(* failure branch in order.  The handle is freed exactly when cleanup      *)
(* calls resource_store_free_handle.                                       *)
(***************************************************************************)
StoreAfterCreate(kind, f) ==
  LET h == resource_store_next_handle(store[kind])
      s1 == resource_store_create_handle(store[kind])
  IN IF FreeHandle(kind) \in Range(f.cleanup) THEN resource_store_free_handle(s1, h) ELSE s1

CallsOfCreate(kind, f) == <<CreateHandle(kind)>> \o Creates(f.created) \o f.cleanup

Success(objs) == [result |-> "CGPU_OK", created |-> objs, cleanup |-> <<>>]

(***************************************************************************)
(* cgpu_create_device                                                      *)
(***************************************************************************)
\* the native objects of a device, in the order cgpu_create_device creates them
DeviceObjects == <<"logical_device", "command_pool", "sampler", "query_pool", "allocator">>

\* the checks before the logical device is created, in order
DeviceEarlyChecks == {"max_physical_devices", "no_device_at_index", "api_version", "subgroup", "device_ext_count", "descriptor_indexing", "queue_family_count", "compute_queue"}

DeviceFailPoints == (DeviceEarlyChecks \ {"max_physical_devices", "no_device_at_index"}) \cup Range(DeviceObjects)

\* failure branches whose allocator branch destroys the command pool before the sampler
DeviceFail_swapped(phase) ==
  CASE phase = "max_physical_devices" -> [result |-> "CGPU_FAIL_MAX_PHYSICAL_DEVICES_REACHED", created |-> <<>>, cleanup |-> <<FreeHandle("device")>>]
    [] phase = "no_device_at_index" -> [result |-> "CGPU_FAIL_NO_DEVICE_AT_INDEX", created |-> <<>>, cleanup |-> <<FreeHandle("device")>>]
    [] phase = "api_version" -> [result |-> "CGPU_FAIL_VK_VERSION_NOT_SUPPORTED", created |-> <<>>, cleanup |-> <<FreeHandle("device")>>]
    [] phase = "subgroup" -> [result |-> "CGPU_FAIL_FEATURE_REQUIREMENTS_NOT_MET", created |-> <<>>, cleanup |-> <<FreeHandle("device")>>]
    [] phase = "device_ext_count" -> [result |-> "CGPU_FAIL_MAX_DEVICE_EXTENSIONS_REACHED", created |-> <<>>, cleanup |-> <<FreeHandle("device")>>]
    [] phase = "descriptor_indexing" -> [result |-> "CGPU_FAIL_FEATURE_REQUIREMENTS_NOT_MET", created |-> <<>>, cleanup |-> <<FreeHandle("device")>>]
    [] phase = "queue_family_count" -> [result |-> "CGPU_FAIL_MAX_QUEUE_FAMILIES_REACHED", created |-> <<>>, cleanup |-> <<FreeHandle("device")>>]
    [] phase = "compute_queue" -> [result |-> "CGPU_FAIL_DEVICE_HAS_NO_COMPUTE_QUEUE_FAMILY", created |-> <<>>, cleanup |-> <<FreeHandle("device")>>]
    [] phase = "logical_device" -> [result |-> "CGPU_FAIL_CAN_NOT_CREATE_LOGICAL_DEVICE", created |-> <<>>, cleanup |-> <<FreeHandle("device")>>]
    [] phase = "command_pool" -> [result |-> "CGPU_FAIL_CAN_NOT_CREATE_COMMAND_POOL", created |-> <<"logical_device">>,
                                  cleanup |-> <<FreeHandle("device"), Destroy("logical_device")>>]
    [] phase = "sampler" -> [result |-> "CGPU_FAIL_CAN_NOT_CREATE_COMMAND_POOL", created |-> <<"logical_device", "command_pool">>,
                             cleanup |-> <<FreeHandle("device"), Destroy("command_pool"), Destroy("logical_device")>>]
    [] phase = "query_pool" -> [result |-> "CGPU_FAIL_UNABLE_TO_CREATE_QUERY_POOL", created |-> <<"logical_device", "command_pool", "sampler">>,
                                cleanup |-> <<FreeHandle("device"), Destroy("sampler"), Destroy("command_pool"), Destroy("logical_device")>>]
    [] phase = "allocator" -> [result |-> "CGPU_FAIL_UNABLE_TO_INITIALIZE_VMA", created |-> <<"logical_device", "command_pool", "sampler", "query_pool">>,
                               cleanup |-> <<FreeHandle("device"), Destroy("query_pool"), Destroy("command_pool"), Destroy("sampler"), Destroy("logical_device")>>]
    [] OTHER -> Success(DeviceObjects)

\* the failure branches of cgpu_create_device
DeviceFail(phase) ==
  CASE phase = "max_physical_devices" -> [result |-> "CGPU_FAIL_MAX_PHYSICAL_DEVICES_REACHED", created |-> <<>>, cleanup |-> <<FreeHandle("device")>>]
    [] phase = "no_device_at_index" -> [result |-> "CGPU_FAIL_NO_DEVICE_AT_INDEX", created |-> <<>>, cleanup |-> <<FreeHandle("device")>>]
    [] phase = "api_version" -> [result |-> "CGPU_FAIL_VK_VERSION_NOT_SUPPORTED", created |-> <<>>, cleanup |-> <<FreeHandle("device")>>]
    [] phase = "subgroup" -> [result |-> "CGPU_FAIL_FEATURE_REQUIREMENTS_NOT_MET", created |-> <<>>, cleanup |-> <<FreeHandle("device")>>]
    [] phase = "device_ext_count" -> [result |-> "CGPU_FAIL_MAX_DEVICE_EXTENSIONS_REACHED", created |-> <<>>, cleanup |-> <<FreeHandle("device")>>]
    [] phase = "descriptor_indexing" -> [result |-> "CGPU_FAIL_FEATURE_REQUIREMENTS_NOT_MET", created |-> <<>>, cleanup |-> <<FreeHandle("device")>>]
    [] phase = "queue_family_count" -> [result |-> "CGPU_FAIL_MAX_QUEUE_FAMILIES_REACHED", created |-> <<>>, cleanup |-> <<FreeHandle("device")>>]
    [] phase = "compute_queue" -> [result |-> "CGPU_FAIL_DEVICE_HAS_NO_COMPUTE_QUEUE_FAMILY", created |-> <<>>, cleanup |-> <<FreeHandle("device")>>]
    [] phase = "logical_device" -> [result |-> "CGPU_FAIL_CAN_NOT_CREATE_LOGICAL_DEVICE", created |-> <<>>, cleanup |-> <<FreeHandle("device")>>]
    [] phase = "command_pool" -> [result |-> "CGPU_FAIL_CAN_NOT_CREATE_COMMAND_POOL", created |-> <<"logical_device">>,
                                  cleanup |-> <<FreeHandle("device"), Destroy("logical_device")>>]
    [] phase = "sampler" -> [result |-> "CGPU_FAIL_CAN_NOT_CREATE_COMMAND_POOL", created |-> <<"logical_device", "command_pool">>,
                             cleanup |-> <<FreeHandle("device"), Destroy("command_pool"), Destroy("logical_device")>>]
    [] phase = "query_pool" -> [result |-> "CGPU_FAIL_UNABLE_TO_CREATE_QUERY_POOL", created |-> <<"logical_device", "command_pool", "sampler">>,
                                cleanup |-> <<FreeHandle("device"), Destroy("sampler"), Destroy("command_pool"), Destroy("logical_device")>>]
    [] phase = "allocator" -> [result |-> "CGPU_FAIL_UNABLE_TO_INITIALIZE_VMA", created |-> <<"logical_device", "command_pool", "sampler", "query_pool">>,
                               cleanup |-> <<FreeHandle("device"), Destroy("query_pool"), Destroy("sampler"), Destroy("command_pool"), Destroy("logical_device")>>]
    [] OTHER -> Success(DeviceObjects)

\* the index check placed before the cap check
DevicePhase_index_first(count, index, fail) ==
  IF count = 0 \/ index >= count THEN "no_device_at_index"
  ELSE IF count > MAX_PHYSICAL_DEVICES THEN "max_physical_devices"
  ELSE fail

\* the branch cgpu_create_device takes: the count and index checks come first
DevicePhase(count, index, fail) ==
  IF count > MAX_PHYSICAL_DEVICES THEN "max_physical_devices"
  ELSE IF count = 0 \/ index >= count THEN "no_device_at_index"
  ELSE fail

cgpu_create_device(count, index, align, fail) ==
  /\ CanAllocate("device")
  /\ LET h == resource_store_next_handle(store["device"])
         s1 == resource_store_create_handle(store["device"])
         phase == DevicePhase(count, index, fail)
         f == DeviceFail(phase)
     IN IF ~resource_store_get(s1, h)
        THEN /\ store' = [store EXCEPT !["device"] = s1]
             /\ last' = Ret("cgpu_create_device", "device", <<>>, "CGPU_FAIL_INVALID_HANDLE", h, "resolve", <<CreateHandle("device")>>)
             /\ UNCHANGED slots
        ELSE /\ store' = [store EXCEPT !["device"] = StoreAfterCreate("device", f)]
             /\ last' = [Ret("cgpu_create_device", "device", <<>>, f.result, h, phase, CallsOfCreate("device", f))
                          EXCEPT !.input = <<count, index>>]
             \* limits are stored once the properties are queried (line 790)
             /\ idevice' = IF phase \in {"max_physical_devices", "no_device_at_index", "api_version", "subgroup"}
                           THEN idevice ELSE [idevice EXCEPT ![h] = [minStorageBufferOffsetAlignment |-> align]]
             /\ UNCHANGED <<pass, renderBuffer, render, staging, stager, ishader, ipipeline, icommand_buffer, iimage, ifence, thread, bound>>

(***************************************************************************)
(* cgpu_destroy_device                                                     *)
(***************************************************************************)
\* a teardown that destroys the logical device before the command pool
DestroyDeviceCalls_early == <<Destroy("allocator"), Destroy("query_pool"), Destroy("sampler"), Destroy("logical_device"), Destroy("command_pool")>>

\* the native destroy calls of cgpu_destroy_device, in order
DestroyDeviceCalls == <<Destroy("allocator"), Destroy("query_pool"), Destroy("sampler"), Destroy("command_pool"), Destroy("logical_device")>>

cgpu_destroy_device(device) ==
  LET args == <<<<"device", device>>>>
  IN IF ~cgpu_resolve("device", device) THEN InvalidHandle("cgpu_destroy_device", "device", args)
     ELSE /\ store' = [store EXCEPT !["device"] = resource_store_free_handle(store["device"], device)]
          /\ last' = Ret("cgpu_destroy_device", "device", args, "CGPU_OK", device, "none", DestroyDeviceCalls \o <<FreeHandle("device")>>)
          /\ UNCHANGED slots


(***************************************************************************)
(* The create operations that take a device: the device is resolved, then  *)
(* the handle is allocated and its slot resolved, then the branch f runs.  *)
(* A store at the model's cap does not take the allocation.                *)
(***************************************************************************)
\* the state after the handle was allocated and the branch f (of phase) ran; the slots are set by the caller
CreateBranch(op, kind, args, phase, f) ==
  LET h == resource_store_next_handle(store[kind])
  IN /\ store' = [store EXCEPT ![kind] = StoreAfterCreate(kind, f)]
     /\ last' = Ret(op, kind, args, f.result, h, phase, CallsOfCreate(kind, f))

\* the resolve that follows the allocation fails: the function returns, the handle stays allocated
CreateUnresolved(op, kind, args) ==
  /\ store' = [store EXCEPT ![kind] = resource_store_create_handle(store[kind])]
  /\ last' = Ret(op, kind, args, "CGPU_FAIL_INVALID_HANDLE", resource_store_next_handle(store[kind]), "resolve", <<CreateHandle(kind)>>)
  /\ UNCHANGED slots

NewResolves(kind) == resource_store_get(resource_store_create_handle(store[kind]), resource_store_next_handle(store[kind]))

(***************************************************************************)
(* cgpu_create_shader, cgpu_destroy_shader                                 *)
(***************************************************************************)
ShaderFail(phase) ==
  CASE phase = "shader_module" -> [result |-> "CGPU_FAIL_UNABLE_TO_CREATE_SHADER_MODULE", created |-> <<>>, cleanup |-> <<FreeHandle("shader")>>]
    [] phase = "reflection" -> [result |-> "CGPU_FAIL_UNABLE_TO_REFLECT_SHADER", created |-> <<"shader_module">>,
                                cleanup |-> <<Destroy("shader_module"), FreeHandle("shader")>>]
    [] OTHER -> Success(<<"shader_module", "reflection">>)

cgpu_create_shader(device, reflection, fail) ==
  LET args == <<<<"device", device>>>>
      h == resource_store_next_handle(store["shader"])
  IN IF ~cgpu_resolve("device", device) THEN InvalidHandle("cgpu_create_shader", "shader", args)
     ELSE /\ CanAllocate("shader")
          /\ IF ~NewResolves("shader") THEN CreateUnresolved("cgpu_create_shader", "shader", args)
             ELSE /\ CreateBranch("cgpu_create_shader", "shader", args, fail, ShaderFail(fail))
                  /\ ishader' = IF fail = "none" THEN [ishader EXCEPT ![h] = [reflection |-> reflection]] ELSE ishader
                  /\ UNCHANGED <<pass, renderBuffer, render, staging, stager, idevice, ipipeline, icommand_buffer, iimage, ifence, thread, bound>>

DestroyShaderCalls == <<Destroy("reflection"), Destroy("shader_module"), FreeHandle("shader")>>

cgpu_destroy_shader(device, shader) ==
  LET args == <<<<"device", device>>, <<"shader", shader>>>>
  IN IF ~cgpu_resolve("device", device) \/ ~cgpu_resolve("shader", shader) THEN InvalidHandle("cgpu_destroy_shader", "shader", args)
     ELSE /\ store' = [store EXCEPT !["shader"] = resource_store_free_handle(store["shader"], shader)]
          /\ last' = Ret("cgpu_destroy_shader", "shader", args, "CGPU_OK", shader, "none", DestroyShaderCalls)
          /\ UNCHANGED slots

(***************************************************************************)
(* cgpu_create_buffer, cgpu_destroy_buffer                                 *)
(***************************************************************************)
\* a buffer failure branch that returns without freeing the handle
BufferFail_keep(phase) ==
  CASE phase = "buffer" -> [result |-> "CGPU_FAIL_UNABLE_TO_CREATE_BUFFER", created |-> <<>>, cleanup |-> <<>>]
    [] OTHER -> Success(<<"buffer">>)

BufferFail(phase) ==
  CASE phase = "buffer" -> [result |-> "CGPU_FAIL_UNABLE_TO_CREATE_BUFFER", created |-> <<>>, cleanup |-> <<FreeHandle("buffer")>>]
    [] OTHER -> Success(<<"buffer">>)

cgpu_create_buffer(device, fail) ==
  LET args == <<<<"device", device>>>>
  IN IF ~cgpu_resolve("device", device) THEN InvalidHandle("cgpu_create_buffer", "buffer", args)
     ELSE /\ CanAllocate("buffer")
          /\ IF ~NewResolves("buffer") THEN CreateUnresolved("cgpu_create_buffer", "buffer", args)
             ELSE /\ CreateBranch("cgpu_create_buffer", "buffer", args, fail, BufferFail(fail))
                  /\ UNCHANGED slots

DestroyBufferCalls == <<Destroy("buffer"), FreeHandle("buffer")>>

\* a destroy that frees the handle it is given without resolving it
cgpu_destroy_buffer_unchecked(device, buffer) ==
  LET args == <<<<"device", device>>, <<"buffer", buffer>>>>
  IN IF ~cgpu_resolve("device", device) THEN InvalidHandle("cgpu_destroy_buffer", "buffer", args)
     ELSE /\ store' = [store EXCEPT !["buffer"] = resource_store_free_handle(store["buffer"], buffer)]
          /\ last' = Ret("cgpu_destroy_buffer", "buffer", args, "CGPU_OK", buffer, "none", DestroyBufferCalls)
          /\ UNCHANGED slots

cgpu_destroy_buffer(device, buffer) ==
  LET args == <<<<"device", device>>, <<"buffer", buffer>>>>
  IN IF ~cgpu_resolve("device", device) \/ ~cgpu_resolve("buffer", buffer) THEN InvalidHandle("cgpu_destroy_buffer", "buffer", args)
     ELSE /\ store' = [store EXCEPT !["buffer"] = resource_store_free_handle(store["buffer"], buffer)]
          /\ last' = Ret("cgpu_destroy_buffer", "buffer", args, "CGPU_OK", buffer, "none", DestroyBufferCalls)
          /\ UNCHANGED slots

(***************************************************************************)
(* cgpu_create_image, cgpu_destroy_image                                   *)
(***************************************************************************)
ImageFail(phase) ==
  CASE phase = "image" -> [result |-> "CGPU_FAIL_UNABLE_TO_CREATE_IMAGE", created |-> <<>>, cleanup |-> <<FreeHandle("image")>>]
    [] phase = "image_view" -> [result |-> "CGPU_FAIL_UNABLE_TO_CREATE_IMAGE", created |-> <<"image">>,
                                cleanup |-> <<FreeHandle("image"), Destroy("image")>>]
    [] OTHER -> Success(<<"image", "image_view">>)

\* a create that leaves the slot's tracked layout and access mask as it finds them
cgpu_create_image_stale(device, fail) ==
  LET args == <<<<"device", device>>>>
      h == resource_store_next_handle(store["image"])
  IN IF ~cgpu_resolve("device", device) THEN InvalidHandle("cgpu_create_image", "image", args)
     ELSE /\ CanAllocate("image")
          /\ IF ~NewResolves("image") THEN CreateUnresolved("cgpu_create_image", "image", args)
             ELSE /\ store' = [store EXCEPT !["image"] = StoreAfterCreate("image", ImageFail(fail))]
                  /\ last' = [Ret("cgpu_create_image", "image", args, ImageFail(fail).result, h, fail, CallsOfCreate("image", ImageFail(fail)))
                              EXCEPT !.was = iimage[h]]
                  /\ UNCHANGED slots

cgpu_create_image(device, fail) ==
  LET args == <<<<"device", device>>>>
      h == resource_store_next_handle(store["image"])
  IN IF ~cgpu_resolve("device", device) THEN InvalidHandle("cgpu_create_image", "image", args)
     ELSE /\ CanAllocate("image")
          /\ IF ~NewResolves("image") THEN CreateUnresolved("cgpu_create_image", "image", args)
             ELSE /\ store' = [store EXCEPT !["image"] = StoreAfterCreate("image", ImageFail(fail))]
                  /\ last' = [Ret("cgpu_create_image", "image", args, ImageFail(fail).result, h, fail, CallsOfCreate("image", ImageFail(fail)))
                              EXCEPT !.was = iimage[h]]
                  \* the slot is written last, when every native call has succeeded (lines 1525-1526)
                  /\ iimage' = IF fail = "none" THEN [iimage EXCEPT ![h] = [layout |-> "UNDEFINED", access_mask |-> {}]] ELSE iimage
                  /\ UNCHANGED <<pass, renderBuffer, render, staging, stager, idevice, ishader, ipipeline, icommand_buffer, ifence, thread, bound>>

DestroyImageCalls == <<Destroy("image_view"), Destroy("image"), FreeHandle("image")>>

\* a destroy of an image that frees the handle without resolving the image
cgpu_destroy_image_unresolved(device, image) ==
  LET args == <<<<"device", device>>, <<"image", image>>>>
  IN IF ~cgpu_resolve("device", device) THEN InvalidHandle("cgpu_destroy_image", "image", args)
     ELSE /\ store' = [store EXCEPT !["image"] = resource_store_free_handle(store["image"], image)]
          /\ last' = Ret("cgpu_destroy_image", "image", args, "CGPU_OK", image, "none", DestroyImageCalls)
          /\ UNCHANGED slots

cgpu_destroy_image(device, image) ==
  LET args == <<<<"device", device>>, <<"image", image>>>>
  IN IF ~cgpu_resolve("device", device) \/ ~cgpu_resolve("image", image) THEN InvalidHandle("cgpu_destroy_image", "image", args)
     ELSE /\ store' = [store EXCEPT !["image"] = resource_store_free_handle(store["image"], image)]
          /\ last' = Ret("cgpu_destroy_image", "image", args, "CGPU_OK", image, "none", DestroyImageCalls)
          /\ UNCHANGED slots

(***************************************************************************)
(* cgpu_create_sampler, cgpu_destroy_sampler                               *)
(***************************************************************************)
SamplerFail(phase) ==
  CASE phase = "sampler" -> [result |-> "CGPU_FAIL_UNABLE_TO_CREATE_SAMPLER", created |-> <<>>, cleanup |-> <<FreeHandle("sampler")>>]
    [] OTHER -> Success(<<"sampler">>)

cgpu_create_sampler(device, fail) ==
  LET args == <<<<"device", device>>>>
  IN IF ~cgpu_resolve("device", device) THEN InvalidHandle("cgpu_create_sampler", "sampler", args)
     ELSE /\ CanAllocate("sampler")
          /\ IF ~NewResolves("sampler") THEN CreateUnresolved("cgpu_create_sampler", "sampler", args)
             ELSE /\ CreateBranch("cgpu_create_sampler", "sampler", args, fail, SamplerFail(fail))
                  /\ UNCHANGED slots

DestroySamplerCalls == <<Destroy("sampler"), FreeHandle("sampler")>>

cgpu_destroy_sampler(device, sampler) ==
  LET args == <<<<"device", device>>, <<"sampler", sampler>>>>
  IN IF ~cgpu_resolve("device", device) \/ ~cgpu_resolve("sampler", sampler) THEN InvalidHandle("cgpu_destroy_sampler", "sampler", args)
     ELSE /\ store' = [store EXCEPT !["sampler"] = resource_store_free_handle(store["sampler"], sampler)]
          /\ last' = Ret("cgpu_destroy_sampler", "sampler", args, "CGPU_OK", sampler, "none", DestroySamplerCalls)
          /\ UNCHANGED slots

(***************************************************************************)
(* cgpu_create_fence, cgpu_destroy_fence                                   *)
(***************************************************************************)
FenceFail(phase) ==
  CASE phase = "fence" -> [result |-> "CGPU_FAIL_UNABLE_TO_CREATE_FENCE", created |-> <<>>, cleanup |-> <<FreeHandle("fence")>>]
    [] OTHER -> Success(<<"fence">>)

\* the state of a slot's native fence: signaled, pending (a queue submission that will signal it has not
\* completed), and by, which records what signaled it last ("create", "queue", "none" once reset)
NoFence == [signaled |-> FALSE, pending |-> FALSE, by |-> "none"]

\* vkCreateFence with flags = 0
cgpu_create_fence_unsignaled(device, fail) ==
  LET args == <<<<"device", device>>>>
      h == resource_store_next_handle(store["fence"])
  IN IF ~cgpu_resolve("device", device) THEN InvalidHandle("cgpu_create_fence", "fence", args)
     ELSE /\ CanAllocate("fence")
          /\ IF ~NewResolves("fence") THEN CreateUnresolved("cgpu_create_fence", "fence", args)
             ELSE /\ CreateBranch("cgpu_create_fence", "fence", args, fail, FenceFail(fail))
                  /\ ifence' = IF FenceFail(fail).result = "CGPU_OK" THEN [ifence EXCEPT ![h] = NoFence] ELSE ifence
                  /\ UNCHANGED <<pass, renderBuffer, render, staging, stager, idevice, ishader, ipipeline, icommand_buffer, iimage, thread, bound>>

cgpu_create_fence(device, fail) ==
  LET args == <<<<"device", device>>>>
      h == resource_store_next_handle(store["fence"])
  IN IF ~cgpu_resolve("device", device) THEN InvalidHandle("cgpu_create_fence", "fence", args)
     ELSE /\ CanAllocate("fence")
          /\ IF ~NewResolves("fence") THEN CreateUnresolved("cgpu_create_fence", "fence", args)
             ELSE /\ CreateBranch("cgpu_create_fence", "fence", args, fail, FenceFail(fail))
                  \* fence_create_info.flags = VK_FENCE_CREATE_SIGNALED_BIT (line 2688)
                  /\ ifence' = IF FenceFail(fail).result = "CGPU_OK"
                                 THEN [ifence EXCEPT ![h] = [signaled |-> TRUE, pending |-> FALSE, by |-> "create"]]
                                 ELSE ifence
                  /\ UNCHANGED <<pass, renderBuffer, render, staging, stager, idevice, ishader, ipipeline, icommand_buffer, iimage, thread, bound>>

DestroyFenceCalls == <<Destroy("fence"), FreeHandle("fence")>>

cgpu_destroy_fence(device, fence) ==
  LET args == <<<<"device", device>>, <<"fence", fence>>>>
  IN IF ~cgpu_resolve("device", device) \/ ~cgpu_resolve("fence", fence) THEN InvalidHandle("cgpu_destroy_fence", "fence", args)
     ELSE /\ store' = [store EXCEPT !["fence"] = resource_store_free_handle(store["fence"], fence)]
          /\ last' = Ret("cgpu_destroy_fence", "fence", args, "CGPU_OK", fence, "none", DestroyFenceCalls)
          \* vkDestroyFence: the native fence is gone
          /\ ifence' = [ifence EXCEPT ![fence] = NoFence]
          /\ UNCHANGED <<pass, renderBuffer, render, staging, stager, idevice, ishader, ipipeline, icommand_buffer, iimage, thread, bound>>

(***************************************************************************)
(* cgpu_create_command_buffer, cgpu_destroy_command_buffer                 *)
(***************************************************************************)
\* the failure branch of vkAllocateCommandBuffers returns without freeing the handle (line 2108)
CommandBufferFail(phase) ==
  CASE phase = "command_buffer" -> [result |-> "CGPU_FAIL_UNABLE_TO_ALLOCATE_COMMAND_BUFFER", created |-> <<>>, cleanup |-> <<>>]
    [] OTHER -> Success(<<"command_buffer">>)

\* a create that does not resolve the device
cgpu_create_command_buffer_unchecked(device, fail) ==
  LET args == <<<<"device", device>>>>
      h == resource_store_next_handle(store["command_buffer"])
  IN /\ CanAllocate("command_buffer")
     /\ CreateBranch("cgpu_create_command_buffer", "command_buffer", args, fail, CommandBufferFail(fail))
     /\ icommand_buffer' = [icommand_buffer EXCEPT ![h] = [device |-> device, pipeline |-> CGPU_INVALID_HANDLE]]
     /\ UNCHANGED <<pass, renderBuffer, render, staging, stager, idevice, ishader, ipipeline, iimage, ifence, thread, bound>>

cgpu_create_command_buffer(device, fail) ==
  LET args == <<<<"device", device>>>>
      h == resource_store_next_handle(store["command_buffer"])
  IN IF ~cgpu_resolve("device", device) THEN InvalidHandle("cgpu_create_command_buffer", "command_buffer", args)
     ELSE /\ CanAllocate("command_buffer")
          /\ IF ~NewResolves("command_buffer") THEN CreateUnresolved("cgpu_create_command_buffer", "command_buffer", args)
             ELSE /\ CreateBranch("cgpu_create_command_buffer", "command_buffer", args, fail, CommandBufferFail(fail))
                  \* the slot is written before the native allocation (lines 2093-2094)
                  /\ icommand_buffer' = [icommand_buffer EXCEPT ![h] = [device |-> device, pipeline |-> CGPU_INVALID_HANDLE]]
                  /\ UNCHANGED <<pass, renderBuffer, render, staging, stager, idevice, ishader, ipipeline, iimage, ifence, thread, bound>>

DestroyCommandBufferCalls == <<Destroy("command_buffer"), FreeHandle("command_buffer")>>

cgpu_destroy_command_buffer(device, command_buffer) ==
  LET args == <<<<"device", device>>, <<"command_buffer", command_buffer>>>>
  IN IF ~cgpu_resolve("device", device) \/ ~cgpu_resolve("command_buffer", command_buffer)
     THEN InvalidHandle("cgpu_destroy_command_buffer", "command_buffer", args)
     ELSE /\ store' = [store EXCEPT !["command_buffer"] = resource_store_free_handle(store["command_buffer"], command_buffer)]
          /\ last' = Ret("cgpu_destroy_command_buffer", "command_buffer", args, "CGPU_OK", command_buffer, "none", DestroyCommandBufferCalls)
          /\ UNCHANGED slots

(***************************************************************************)
(* Shader reflection (shader_reflection.h): a sequence of resources        *)
(* [binding, descriptor_type, read_access, write_access].                  *)
(***************************************************************************)
Resource(binding, type, read, write) == [binding |-> binding, descriptor_type |-> type, read_access |-> read, write_access |-> write]

\* the descriptor types cgpu_create_pipeline tallies (lines 1811-1815)
TalliedTypes == {"STORAGE_BUFFER", "STORAGE_IMAGE", "SAMPLED_IMAGE", "COMBINED_IMAGE_SAMPLER", "SAMPLER"}

\* the descriptor types in the order cgpu_create_pipeline fills the pool size table (lines 1837-1866)
PoolSizeTypes == <<"STORAGE_BUFFER", "STORAGE_IMAGE", "SAMPLED_IMAGE", "COMBINED_IMAGE_SAMPLER", "SAMPLER">>

\* the counter of a descriptor type after the tally loop (lines 1805-1831)
TallyCount(reflection, type) == Cardinality({i \in 1..Len(reflection) : reflection[i].descriptor_type = type})

\* a size table with an entry for every descriptor type, also those that do not occur
DescriptorPoolSizes_all(reflection) ==
  [k \in 1..Len(PoolSizeTypes) |-> [type |-> PoolSizeTypes[k], descriptorCount |-> TallyCount(reflection, PoolSizeTypes[k])]]

\* the pool size table: an entry for every counter that is positive, in the order of the types (lines 1834-1866)
DescriptorPoolSizes(reflection) ==
  SelectSeq([k \in 1..Len(PoolSizeTypes) |-> [type |-> PoolSizeTypes[k], descriptorCount |-> TallyCount(reflection, PoolSizeTypes[k])]],
            LAMBDA e : e.descriptorCount > 0)

(***************************************************************************)
(* cgpu_create_pipeline, cgpu_destroy_pipeline                             *)
(* The descriptor set is allocated from the descriptor pool and goes with  *)
(* it; it is not a native object of its own here.                          *)
(***************************************************************************)
PipelineObjects == <<"descriptor_set_layout", "pipeline_layout", "pipeline", "descriptor_pool">>

PipelineFailPoints == {"descriptor_set_layout", "pipeline_layout", "compute_pipeline", "descriptor_pool", "descriptor_set"}

\* the failure branches of cgpu_create_pipeline
PipelineFail(phase) ==
  CASE phase = "resource_count" -> [result |-> "CGPU_FAIL_UNABLE_TO_CREATE_DESCRIPTOR_LAYOUT", created |-> <<>>, cleanup |-> <<>>]
    [] phase = "descriptor_set_layout" -> [result |-> "CGPU_FAIL_UNABLE_TO_CREATE_DESCRIPTOR_LAYOUT", created |-> <<>>,
                                           cleanup |-> <<FreeHandle("pipeline")>>]
    [] phase = "pipeline_layout" -> [result |-> "CGPU_FAIL_UNABLE_TO_CREATE_PIPELINE_LAYOUT", created |-> <<"descriptor_set_layout">>,
                                     cleanup |-> <<FreeHandle("pipeline"), Destroy("descriptor_set_layout")>>]
    [] phase = "compute_pipeline" -> [result |-> "CGPU_FAIL_UNABLE_TO_CREATE_COMPUTE_PIPELINE", created |-> <<"descriptor_set_layout", "pipeline_layout">>,
                                      cleanup |-> <<FreeHandle("pipeline"), Destroy("pipeline_layout"), Destroy("descriptor_set_layout")>>]
    [] phase = "descriptor_type" -> [result |-> "CGPU_FAIL_UNABLE_TO_CREATE_COMPUTE_PIPELINE",
                                     created |-> <<"descriptor_set_layout", "pipeline_layout", "pipeline">>,
                                     cleanup |-> <<FreeHandle("pipeline"), Destroy("pipeline_layout"), Destroy("descriptor_set_layout")>>]
    [] phase = "descriptor_pool" -> [result |-> "CGPU_FAIL_UNABLE_TO_CREATE_DESCRIPTOR_POOL",
                                     created |-> <<"descriptor_set_layout", "pipeline_layout", "pipeline">>,
                                     cleanup |-> <<FreeHandle("pipeline"), Destroy("pipeline"), Destroy("pipeline_layout"), Destroy("descriptor_set_layout")>>]
    [] phase = "descriptor_set" -> [result |-> "CGPU_FAIL_UNABLE_TO_ALLOCATE_DESCRIPTOR_SET",
                                    created |-> <<"descriptor_set_layout", "pipeline_layout", "pipeline", "descriptor_pool">>,
                                    cleanup |-> <<FreeHandle("pipeline"), Destroy("descriptor_pool"), Destroy("pipeline"), Destroy("pipeline_layout"), Destroy("descriptor_set_layout")>>]
    [] OTHER -> Success(PipelineObjects)

\* the branch cgpu_create_pipeline takes, in the order of the code
PipelinePhase(reflection, fail) ==
  IF Len(reflection) >= MAX_DESCRIPTOR_SET_LAYOUT_BINDINGS THEN "resource_count"
  ELSE IF fail \in {"descriptor_set_layout", "pipeline_layout", "compute_pipeline"} THEN fail
  ELSE IF \E i \in 1..Len(reflection) : reflection[i].descriptor_type \notin TalliedTypes THEN "descriptor_type"
  ELSE fail

\* garbage is what a slot the store hands out for the first time holds: cgpu_create_pipeline
\* writes only the shader field, and only on success; image_resources is written nowhere
cgpu_create_pipeline(device, shader, garbage, fail) ==
  LET args == <<<<"device", device>>, <<"shader", shader>>>>
      h == resource_store_next_handle(store["pipeline"])
      fresh == Len(store["pipeline"].free) = 0
  IN IF ~cgpu_resolve("device", device) \/ ~cgpu_resolve("shader", shader) THEN InvalidHandle("cgpu_create_pipeline", "pipeline", args)
     ELSE /\ CanAllocate("pipeline")
          /\ IF ~NewResolves("pipeline") THEN CreateUnresolved("cgpu_create_pipeline", "pipeline", args)
             ELSE LET phase == PipelinePhase(ishader[shader].reflection, fail)
                      slot == IF fresh THEN garbage ELSE ipipeline[h]
                  IN /\ store' = [store EXCEPT !["pipeline"] = StoreAfterCreate("pipeline", PipelineFail(phase))]
                     /\ last' = [Ret("cgpu_create_pipeline", "pipeline", args, PipelineFail(phase).result, h, phase, CallsOfCreate("pipeline", PipelineFail(phase)))
                                 EXCEPT !.pool_sizes = IF phase \in {"none", "descriptor_pool", "descriptor_set"}
                                                       THEN DescriptorPoolSizes(ishader[shader].reflection) ELSE <<>>]
                     /\ ipipeline' = [ipipeline EXCEPT ![h] = IF phase = "none" THEN [slot EXCEPT !.shader = shader] ELSE slot]
                     /\ bound' = [bound EXCEPT ![h] = <<>>]
                     /\ UNCHANGED <<pass, renderBuffer, render, staging, stager, idevice, ishader, icommand_buffer, iimage, ifence, thread>>

DestroyPipelineCalls == <<Destroy("descriptor_pool"), Destroy("pipeline"), Destroy("pipeline_layout"), Destroy("descriptor_set_layout"), FreeHandle("pipeline")>>

cgpu_destroy_pipeline(device, pipeline) ==
  LET args == <<<<"device", device>>, <<"pipeline", pipeline>>>>
  IN IF ~cgpu_resolve("device", device) \/ ~cgpu_resolve("pipeline", pipeline) THEN InvalidHandle("cgpu_destroy_pipeline", "pipeline", args)
     ELSE /\ store' = [store EXCEPT !["pipeline"] = resource_store_free_handle(store["pipeline"], pipeline)]
          /\ last' = Ret("cgpu_destroy_pipeline", "pipeline", args, "CGPU_OK", pipeline, "none", DestroyPipelineCalls)
          /\ UNCHANGED slots

(***************************************************************************)
(* cgpu_update_resources                                                   *)
(* buffers: [binding, buffer, offset] each; images: [binding, image] each. *)
(***************************************************************************)
HandleList(kind, rs, field) == [i \in 1..Len(rs) |-> <<kind, rs[i][field]>>]

\* a buffer loop that takes an offset that is not aligned, as if it were rounded
RECURSIVE UpdateBuffers_rounded(_, _, _)
UpdateBuffers_rounded(buffers, alignment, i) ==
  IF i > Len(buffers) THEN "CGPU_OK"
  ELSE IF ~cgpu_resolve("buffer", buffers[i].buffer) THEN "CGPU_FAIL_INVALID_HANDLE"
  ELSE UpdateBuffers_rounded(buffers, alignment, i + 1)

\* the result of the buffer loop from entry i on (lines 2003-2037)
RECURSIVE UpdateBuffers(_, _, _)
UpdateBuffers(buffers, alignment, i) ==
  IF i > Len(buffers) THEN "CGPU_OK"
  ELSE IF ~cgpu_resolve("buffer", buffers[i].buffer) THEN "CGPU_FAIL_INVALID_HANDLE"
  ELSE IF (buffers[i].offset % alignment) # 0 THEN "CGPU_FAIL_BUFFER_OFFSET_NOT_ALIGNED"
  ELSE UpdateBuffers(buffers, alignment, i + 1)

\* the result of the image loop (lines 2039-2066)
UpdateImages(images) == IF \E i \in 1..Len(images) : ~cgpu_resolve("image", images[i].image) THEN "CGPU_FAIL_INVALID_HANDLE" ELSE "CGPU_OK"

cgpu_update_resources(device, pipeline, buffers, images) ==
  LET \* a buffer argument goes with the offset of its binding
      args == <<<<"device", device>>, <<"pipeline", pipeline>>>> \o [i \in 1..Len(buffers) |-> <<"buffer", buffers[i].buffer, buffers[i].offset>>]
              \o HandleList("image", images, "image")
      \* the descriptor writes carry the offsets as they were passed (line 2020)
      written == <<"vkUpdateDescriptorSets", "descriptor_set", [i \in 1..Len(buffers) |-> buffers[i].offset]>>
  IN IF ~cgpu_resolve("device", device) \/ ~cgpu_resolve("pipeline", pipeline) THEN InvalidHandle("cgpu_update_resources", "pipeline", args)
     ELSE LET rb == UpdateBuffers(buffers, idevice[device].minStorageBufferOffsetAlignment, 1)
              r == IF rb # "CGPU_OK" THEN rb ELSE UpdateImages(images)
          IN /\ last' = Ret("cgpu_update_resources", "pipeline", args, r, 0, "none", IF r = "CGPU_OK" THEN <<written>> ELSE <<>>)
             /\ bound' = IF r = "CGPU_OK" THEN [bound EXCEPT ![pipeline] = images] ELSE bound
             /\ UNCHANGED <<pass, renderBuffer, render, staging, stager, store, idevice, ishader, ipipeline, icommand_buffer, iimage, ifence, thread>>

(***************************************************************************)
(* Operations that construct and destroy nothing: resolve the handles,     *)
(* make the native calls, return.  failed is whether a fallible native     *)
(* call fails, fail_result the code returned then.                         *)
(***************************************************************************)
Call(name) == <<"call", name>>

Op(op, kind, args, resolved, failed, fail_result, calls) ==
  IF ~resolved THEN InvalidHandle(op, kind, args)
  ELSE IF failed THEN Return(Ret(op, kind, args, fail_result, 0, "native", calls))
  ELSE Return(Ret(op, kind, args, "CGPU_OK", 0, "none", calls))

\* the command buffer resolves, and so does the device its slot names
ResolveCommandBuffer(command_buffer) == cgpu_resolve("command_buffer", command_buffer) /\ cgpu_resolve("device", icommand_buffer[command_buffer].device)

cgpu_map_buffer(device, buffer, failed) ==
  Op("cgpu_map_buffer", "buffer", <<<<"device", device>>, <<"buffer", buffer>>>>, cgpu_resolve("device", device) /\ cgpu_resolve("buffer", buffer),
     failed, "CGPU_FAIL_UNABLE_TO_MAP_MEMORY", <<Call("vmaMapMemory")>>)

\* an unmap that does not resolve the buffer
cgpu_unmap_buffer_unchecked(device, buffer) ==
  Op("cgpu_unmap_buffer", "buffer", <<<<"device", device>>, <<"buffer", buffer>>>>, cgpu_resolve("device", device),
     FALSE, "CGPU_OK", <<Call("vmaUnmapMemory")>>)

cgpu_unmap_buffer(device, buffer) ==
  Op("cgpu_unmap_buffer", "buffer", <<<<"device", device>>, <<"buffer", buffer>>>>, cgpu_resolve("device", device) /\ cgpu_resolve("buffer", buffer),
     FALSE, "CGPU_OK", <<Call("vmaUnmapMemory")>>)

cgpu_map_image(device, image, failed) ==
  Op("cgpu_map_image", "image", <<<<"device", device>>, <<"image", image>>>>, cgpu_resolve("device", device) /\ cgpu_resolve("image", image),
     failed, "CGPU_FAIL_UNABLE_TO_MAP_MEMORY", <<Call("vmaMapMemory")>>)

cgpu_unmap_image(device, image) ==
  Op("cgpu_unmap_image", "image", <<<<"device", device>>, <<"image", image>>>>, cgpu_resolve("device", device) /\ cgpu_resolve("image", image),
     FALSE, "CGPU_OK", <<Call("vmaUnmapMemory")>>)

cgpu_begin_command_buffer(command_buffer, failed) ==
  Op("cgpu_begin_command_buffer", "command_buffer", <<<<"command_buffer", command_buffer>>>>, ResolveCommandBuffer(command_buffer),
     failed, "CGPU_FAIL_UNABLE_TO_BEGIN_COMMAND_BUFFER", <<Call("vkBeginCommandBuffer")>>)

cgpu_end_command_buffer(command_buffer) ==
  Op("cgpu_end_command_buffer", "command_buffer", <<<<"command_buffer", command_buffer>>>>, ResolveCommandBuffer(command_buffer),
     FALSE, "CGPU_OK", <<Call("vkEndCommandBuffer")>>)

\* a bind that records the native calls and leaves the command buffer slot alone
cgpu_cmd_bind_pipeline_uncached(command_buffer, pipeline) ==
  Op("cgpu_cmd_bind_pipeline", "command_buffer", <<<<"command_buffer", command_buffer>>, <<"pipeline", pipeline>>>>,
     ResolveCommandBuffer(command_buffer) /\ cgpu_resolve("pipeline", pipeline), FALSE, "CGPU_OK",
     <<Call("vkCmdBindPipeline"), Call("vkCmdBindDescriptorSets")>>)

cgpu_cmd_bind_pipeline(command_buffer, pipeline) ==
  LET args == <<<<"command_buffer", command_buffer>>, <<"pipeline", pipeline>>>>
  IN IF ~ResolveCommandBuffer(command_buffer) \/ ~cgpu_resolve("pipeline", pipeline) THEN InvalidHandle("cgpu_cmd_bind_pipeline", "command_buffer", args)
     ELSE /\ last' = Ret("cgpu_cmd_bind_pipeline", "command_buffer", args, "CGPU_OK", 0, "none", <<Call("vkCmdBindPipeline"), Call("vkCmdBindDescriptorSets")>>)
          /\ icommand_buffer' = [icommand_buffer EXCEPT ![command_buffer].pipeline = pipeline]
          /\ UNCHANGED <<pass, renderBuffer, render, staging, stager, store, idevice, ishader, ipipeline, iimage, ifence, thread, bound>>

cgpu_cmd_copy_buffer(command_buffer, source_buffer, destination_buffer) ==
  Op("cgpu_cmd_copy_buffer", "command_buffer", <<<<"command_buffer", command_buffer>>, <<"buffer", source_buffer>>, <<"buffer", destination_buffer>>>>,
     ResolveCommandBuffer(command_buffer) /\ cgpu_resolve("buffer", source_buffer) /\ cgpu_resolve("buffer", destination_buffer),
     FALSE, "CGPU_OK", <<Call("vkCmdCopyBuffer")>>)

\* the image's tracked layout becomes GENERAL (line 2297); no barrier is recorded and the access mask stays
cgpu_cmd_copy_buffer_to_image(command_buffer, buffer, image) ==
  LET args == <<<<"command_buffer", command_buffer>>, <<"buffer", buffer>>, <<"image", image>>>>
  IN IF ~ResolveCommandBuffer(command_buffer) \/ ~cgpu_resolve("buffer", buffer) \/ ~cgpu_resolve("image", image)
     THEN InvalidHandle("cgpu_cmd_copy_buffer_to_image", "command_buffer", args)
     ELSE /\ last' = Ret("cgpu_cmd_copy_buffer_to_image", "command_buffer", args, "CGPU_OK", 0, "none", <<Call("vkCmdCopyBufferToImage")>>)
          /\ iimage' = [iimage EXCEPT ![image].layout = "GENERAL"]
          /\ UNCHANGED <<pass, renderBuffer, render, staging, stager, store, idevice, ishader, ipipeline, icommand_buffer, ifence, thread, bound>>

cgpu_cmd_push_constants(command_buffer, pipeline) ==
  Op("cgpu_cmd_push_constants", "command_buffer", <<<<"command_buffer", command_buffer>>, <<"pipeline", pipeline>>>>,
     ResolveCommandBuffer(command_buffer) /\ cgpu_resolve("pipeline", pipeline) /\ cgpu_resolve("shader", ipipeline[pipeline].shader),
     FALSE, "CGPU_OK", <<Call("vkCmdPushConstants")>>)

cgpu_cmd_reset_timestamps(command_buffer) ==
  Op("cgpu_cmd_reset_timestamps", "command_buffer", <<<<"command_buffer", command_buffer>>>>, ResolveCommandBuffer(command_buffer),
     FALSE, "CGPU_OK", <<Call("vkCmdResetQueryPool")>>)

cgpu_cmd_write_timestamp(command_buffer) ==
  Op("cgpu_cmd_write_timestamp", "command_buffer", <<<<"command_buffer", command_buffer>>>>, ResolveCommandBuffer(command_buffer),
     FALSE, "CGPU_OK", <<Call("vkCmdWriteTimestamp")>>)

\* a uint32_t as its two 16-bit halves
UInt32(hi, lo) == [hi |-> hi, lo |-> lo]
UInt32Half == 2^16
\* the sum of two uint32_t, which wraps
UInt32Add(a, b) == UInt32((a.hi + b.hi + ((a.lo + b.lo) \div UInt32Half)) % UInt32Half, (a.lo + b.lo) % UInt32Half)
\* whether a uint32_t is greater than a small constant
UInt32Greater(a, n) == a.hi > 0 \/ a.lo > n

\* the range check on the wrapped sum comes before any handle is resolved
cgpu_cmd_copy_timestamps(command_buffer, buffer, offset, count) ==
  LET args == <<<<"command_buffer", command_buffer>>, <<"buffer", buffer>>>>
      r == IF UInt32Greater(UInt32Add(offset, count), MAX_TIMESTAMP_QUERIES)
           THEN Ret("cgpu_cmd_copy_timestamps", "command_buffer", args, "CGPU_FAIL_MAX_TIMESTAMP_QUERY_INDEX_REACHED", 0, "range", <<>>)
           ELSE IF ~(ResolveCommandBuffer(command_buffer) /\ cgpu_resolve("buffer", buffer))
           THEN Ret("cgpu_cmd_copy_timestamps", "command_buffer", args, "CGPU_FAIL_INVALID_HANDLE", 0, "none", <<>>)
           ELSE Ret("cgpu_cmd_copy_timestamps", "command_buffer", args, "CGPU_OK", 0, "none", <<Call("vkCmdCopyQueryPoolResults")>>)
  IN Return([r EXCEPT !.input = <<offset, count>>])

\* a call that succeeds and leaves the native fence of the slot in the state after
FenceOp(op, kind, args, resolved, failed, fail_result, calls, fence, after) ==
  IF ~resolved \/ failed THEN Op(op, kind, args, resolved, failed, fail_result, calls)
  ELSE /\ last' = Ret(op, kind, args, "CGPU_OK", 0, "none", calls)
       /\ ifence' = [ifence EXCEPT ![fence] = after]
       /\ UNCHANGED <<pass, renderBuffer, render, staging, stager, store, idevice, ishader, ipipeline, icommand_buffer, iimage, thread, bound>>

\* vkResetFences sets the fence to the unsignaled state
cgpu_reset_fence(device, fence, failed) ==
  FenceOp("cgpu_reset_fence", "fence", <<<<"device", device>>, <<"fence", fence>>>>, cgpu_resolve("device", device) /\ cgpu_resolve("fence", fence),
          failed, "CGPU_FAIL_UNABLE_TO_RESET_FENCE", <<Call("vkResetFences")>>,
          fence, [signaled |-> FALSE, pending |-> ifence[fence].pending, by |-> "none"])

\* vkWaitForFences(..., VK_TRUE, UINT64_MAX) blocks while the fence is unsignaled: the call returns VK_SUCCESS
\* only once it is signaled; failed is the native call returning an error instead
cgpu_wait_for_fence(device, fence, failed) ==
  LET resolved == cgpu_resolve("device", device) /\ cgpu_resolve("fence", fence)
  IN /\ resolved /\ ~failed => ifence[fence].signaled
     /\ Op("cgpu_wait_for_fence", "fence", <<<<"device", device>>, <<"fence", fence>>>>, resolved,
           failed, "CGPU_FAIL_UNABLE_TO_WAIT_FOR_FENCE", <<Call("vkWaitForFences")>>)

\* vkQueueSubmit hands the fence to the queue, which signals it when the submission completes
cgpu_submit_command_buffer(device, command_buffer, fence, failed) ==
  FenceOp("cgpu_submit_command_buffer", "command_buffer", <<<<"device", device>>, <<"command_buffer", command_buffer>>, <<"fence", fence>>>>,
          cgpu_resolve("device", device) /\ cgpu_resolve("command_buffer", command_buffer) /\ cgpu_resolve("fence", fence),
          failed, "CGPU_FAIL_UNABLE_TO_SUBMIT_COMMAND_BUFFER", <<Call("vkQueueSubmit")>>,
          fence, [ifence[fence] EXCEPT !.pending = TRUE])

\* the queue completes the submission made with the fence and signals it (the device's side of vkQueueSubmit)
queue_complete(fence) ==
  /\ cgpu_resolve("fence", fence) /\ ifence[fence].pending
  /\ ifence' = [ifence EXCEPT ![fence] = [signaled |-> TRUE, pending |-> FALSE, by |-> "queue"]]
  /\ last' = Ret("queue_complete", "fence", <<<<"fence", fence>>>>, "CGPU_OK", 0, "none", <<>>)
  /\ UNCHANGED <<pass, renderBuffer, render, staging, stager, store, idevice, ishader, ipipeline, icommand_buffer, iimage, thread, bound>>

cgpu_flush_mapped_memory(device, buffer, failed) ==
  Op("cgpu_flush_mapped_memory", "buffer", <<<<"device", device>>, <<"buffer", buffer>>>>, cgpu_resolve("device", device) /\ cgpu_resolve("buffer", buffer),
     failed, "CGPU_FAIL_UNABLE_TO_INVALIDATE_MEMORY", <<Call("vmaFlushAllocation")>>)

cgpu_invalidate_mapped_memory(device, buffer, failed) ==
  Op("cgpu_invalidate_mapped_memory", "buffer", <<<<"device", device>>, <<"buffer", buffer>>>>, cgpu_resolve("device", device) /\ cgpu_resolve("buffer", buffer),
     failed, "CGPU_FAIL_UNABLE_TO_INVALIDATE_MEMORY", <<Call("vmaInvalidateAllocation")>>)

cgpu_get_physical_device_limits(device) ==
  Op("cgpu_get_physical_device_limits", "device", <<<<"device", device>>>>, cgpu_resolve("device", device), FALSE, "CGPU_OK", <<>>)

(***************************************************************************)
(* cgpu_translate_access_flags: every CGPU_MEMORY_ACCESS_FLAG that is set  *)
(* gives its VK_ACCESS bit; other bits give nothing.                       *)
(***************************************************************************)
AccessFlagNames == {"UNIFORM_READ", "SHADER_READ", "SHADER_WRITE", "TRANSFER_READ", "TRANSFER_WRITE", "HOST_READ", "HOST_WRITE", "MEMORY_READ", "MEMORY_WRITE"}

cgpu_translate_access_flags(flags) == {"VK_ACCESS_" \o n \o "_BIT" : n \in {m \in AccessFlagNames : ("CGPU_MEMORY_ACCESS_FLAG_" \o m) \in flags}}

(***************************************************************************)
(* cgpu_transition_image_layouts_for_shader, cgpu_cmd_dispatch             *)
(***************************************************************************)
\* the layout a descriptor type requires (lines 2354-2368)
RequiredLayout(descriptor_type) ==
  IF descriptor_type \in {"SAMPLED_IMAGE", "COMBINED_IMAGE_SAMPLER"} THEN "SHADER_READ_ONLY_OPTIMAL"
  ELSE IF descriptor_type = "STORAGE_IMAGE" THEN "GENERAL"
  ELSE "NOT_AN_IMAGE"

\* the first entry of the pipeline's image table with that binding, 0 if there is none (lines 2371-2379)
FindImageResource(table, binding) ==
  IF \E j \in 1..Len(table) : table[j].binding = binding
  THEN CHOOSE j \in 1..Len(table) : table[j].binding = binding /\ \A k \in 1..(j - 1) : table[k].binding # binding
  ELSE 0

ShaderAccessMask(res_refl) == (IF res_refl.read_access THEN {"VK_ACCESS_SHADER_READ_BIT"} ELSE {}) \cup (IF res_refl.write_access THEN {"VK_ACCESS_SHADER_WRITE_BIT"} ELSE {})

\* the loop over the reflection from resource i on: images are the image slots so far, barriers the barriers so far
RECURSIVE TransitionLoop(_, _, _, _, _)
TransitionLoop(reflection, table, i, images, barriers) ==
  IF i > Len(reflection) THEN [result |-> "CGPU_OK", images |-> images, barriers |-> barriers]
  ELSE LET res_refl == reflection[i]
           new_layout == RequiredLayout(res_refl.descriptor_type)
           j == FindImageResource(table, res_refl.binding)
       IN IF new_layout = "NOT_AN_IMAGE" THEN TransitionLoop(reflection, table, i + 1, images, barriers)
          ELSE IF j = 0 THEN [result |-> "CGPU_FAIL_DESCRIPTOR_SET_BINDING_MISMATCH", images |-> images, barriers |-> barriers]
          ELSE IF ~cgpu_resolve("image", table[j].image) THEN [result |-> "CGPU_FAIL_INVALID_HANDLE", images |-> images, barriers |-> barriers]
          ELSE IF images[table[j].image].layout = new_layout THEN TransitionLoop(reflection, table, i + 1, images, barriers)
          ELSE LET image == table[j].image
                   barrier == [image |-> image, srcAccessMask |-> images[image].access_mask, dstAccessMask |-> ShaderAccessMask(res_refl),
                               oldLayout |-> images[image].layout, newLayout |-> new_layout]
               IN TransitionLoop(reflection, table, i + 1, [images EXCEPT ![image] = [layout |-> new_layout, access_mask |-> ShaderAccessMask(res_refl)]],
                                 Append(barriers, barrier))

\* the image slots are written inside the loop: they keep what the loop wrote when it returns early
cgpu_transition_image_layouts_for_shader(command_buffer) ==
  LET pipeline == icommand_buffer[command_buffer].pipeline
  IN IF ~cgpu_resolve("pipeline", pipeline) \/ ~cgpu_resolve("shader", ipipeline[pipeline].shader)
     THEN [result |-> "CGPU_FAIL_INVALID_HANDLE", images |-> iimage, barriers |-> <<>>]
     ELSE TransitionLoop(ishader[ipipeline[pipeline].shader].reflection, ipipeline[pipeline].image_resources, 1, iimage, <<>>)

cgpu_cmd_dispatch(command_buffer) ==
  LET args == <<<<"command_buffer", command_buffer>>>>
  IN IF ~ResolveCommandBuffer(command_buffer) THEN InvalidHandle("cgpu_cmd_dispatch", "command_buffer", args)
     ELSE LET t == cgpu_transition_image_layouts_for_shader(command_buffer)
              barrier_calls == IF Len(t.barriers) > 0 THEN <<Call("vkCmdPipelineBarrier")>> ELSE <<>>
          IN /\ last' = IF t.result # "CGPU_OK"
                        THEN Ret("cgpu_cmd_dispatch", "command_buffer", args, t.result, 0, "transition", <<>>)
                        ELSE [Ret("cgpu_cmd_dispatch", "command_buffer", args, "CGPU_OK", 0, "none", barrier_calls \o <<Call("vkCmdDispatch")>>)
                                EXCEPT !.barriers = t.barriers]
             /\ iimage' = t.images
             /\ UNCHANGED <<pass, renderBuffer, render, staging, stager, store, idevice, ishader, ipipeline, icommand_buffer, ifence, thread, bound>>

(***************************************************************************)
(* cgpu_cmd_dispatch run by recording threads.  The image slots are read   *)
(* and written without a lock, so the steps of two threads interleave      *)
(* between the read of iimage->layout (line 2390) and the writes of        *)
(* iimage->access_mask and iimage->layout (lines 2420-2421).               *)
(*   pc         "idle", "loop" (at the head of the loop over the           *)
(*              reflection), "write" (old_layout read and found different),*)
(*              "done" (returned)                                          *)
(*   i          the loop index, old_layout the local of that name          *)
(*   barriers   the local array barriers, result the code returned         *)
(*   alone      no other thread was inside cgpu_cmd_dispatch meanwhile     *)
(***************************************************************************)
Threads == {1, 2}

Idle == [pc |-> "idle", command_buffer |-> 0, i |-> 0, old_layout |-> "NONE", barriers |-> <<>>, result |-> "NONE", alone |-> TRUE]

Inside(t) == thread[t].pc \in {"loop", "write"}

\* the pipeline, reflection and image table the thread's dispatch works on
ThreadPipeline(t) == icommand_buffer[thread[t].command_buffer].pipeline
ThreadReflection(t) == ishader[ipipeline[ThreadPipeline(t)].shader].reflection
ThreadTable(t) == ipipeline[ThreadPipeline(t)].image_resources

\* the thread returns result from cgpu_cmd_dispatch
ThreadReturn(t, result) ==
  /\ thread' = [thread EXCEPT ![t].pc = "done", ![t].result = result]
  /\ last' = IF result # "CGPU_OK"
             THEN Ret("cgpu_cmd_dispatch", "command_buffer", <<<<"command_buffer", thread[t].command_buffer>>>>, result, 0, "transition", <<>>)
             ELSE [Ret("cgpu_cmd_dispatch", "command_buffer", <<<<"command_buffer", thread[t].command_buffer>>>>, "CGPU_OK", 0, "none",
                       (IF Len(thread[t].barriers) > 0 THEN <<Call("vkCmdPipelineBarrier")>> ELSE <<>>) \o <<Call("vkCmdDispatch")>>)
                     EXCEPT !.barriers = thread[t].barriers]
  /\ UNCHANGED <<pass, renderBuffer, render, staging, stager, store, idevice, ishader, ipipeline, icommand_buffer, iimage, ifence, bound>>

\* the thread calls cgpu_cmd_dispatch and resolves the command buffer, device, pipeline and shader
dispatch_enter(t, command_buffer) ==
  /\ thread[t].pc = "idle"
  /\ LET resolved == /\ ResolveCommandBuffer(command_buffer)
                      /\ cgpu_resolve("pipeline", icommand_buffer[command_buffer].pipeline)
                      /\ cgpu_resolve("shader", ipipeline[icommand_buffer[command_buffer].pipeline].shader)
         others == {u \in Threads \ {t} : Inside(u)}
     IN /\ thread' = [u \in Threads |->
                        IF u = t THEN [Idle EXCEPT !.pc = IF resolved THEN "loop" ELSE "done", !.command_buffer = command_buffer, !.i = 1,
                                                   !.result = IF resolved THEN "NONE" ELSE "CGPU_FAIL_INVALID_HANDLE", !.alone = others = {}]
                        ELSE IF u \in others THEN [thread[u] EXCEPT !.alone = FALSE]
                        ELSE thread[u]]
        /\ last' = IF resolved THEN last
                   ELSE Ret("cgpu_cmd_dispatch", "command_buffer", <<<<"command_buffer", command_buffer>>>>, "CGPU_FAIL_INVALID_HANDLE", 0, "none", <<>>)
  /\ UNCHANGED <<pass, renderBuffer, render, staging, stager, store, idevice, ishader, ipipeline, icommand_buffer, iimage, ifence, bound>>

\* one pass through the head of the loop: up to the comparison of new_layout with old_layout (lines 2350-2394)
dispatch_read(t) ==
  /\ thread[t].pc = "loop"
  /\ IF thread[t].i > Len(ThreadReflection(t)) THEN ThreadReturn(t, "CGPU_OK")
     ELSE LET res_refl == ThreadReflection(t)[thread[t].i]
              new_layout == RequiredLayout(res_refl.descriptor_type)
              j == FindImageResource(ThreadTable(t), res_refl.binding)
              next == /\ thread' = [thread EXCEPT ![t].i = @ + 1]
                      /\ UNCHANGED <<pass, renderBuffer, render, staging, stager, store, idevice, ishader, ipipeline, icommand_buffer, iimage, ifence, bound, last>>
          IN IF new_layout = "NOT_AN_IMAGE" THEN next
             ELSE IF j = 0 THEN ThreadReturn(t, "CGPU_FAIL_DESCRIPTOR_SET_BINDING_MISMATCH")
             ELSE IF ~cgpu_resolve("image", ThreadTable(t)[j].image) THEN ThreadReturn(t, "CGPU_FAIL_INVALID_HANDLE")
             ELSE IF iimage[ThreadTable(t)[j].image].layout = new_layout THEN next
             ELSE /\ thread' = [thread EXCEPT ![t].pc = "write", ![t].old_layout = iimage[ThreadTable(t)[j].image].layout]
                  /\ UNCHANGED <<pass, renderBuffer, render, staging, stager, store, idevice, ishader, ipipeline, icommand_buffer, iimage, ifence, bound, last>>

\* a loop body that fills the barrier and leaves the image slot as it was
dispatch_write_untracked(t) ==
  /\ thread[t].pc = "write"
  /\ LET res_refl == ThreadReflection(t)[thread[t].i]
         image == ThreadTable(t)[FindImageResource(ThreadTable(t), res_refl.binding)].image
         barrier == [image |-> image, srcAccessMask |-> iimage[image].access_mask, dstAccessMask |-> ShaderAccessMask(res_refl),
                     oldLayout |-> thread[t].old_layout, newLayout |-> RequiredLayout(res_refl.descriptor_type)]
     IN thread' = [thread EXCEPT ![t].pc = "loop", ![t].i = @ + 1, ![t].barriers = Append(@, barrier)]
  /\ UNCHANGED <<pass, renderBuffer, render, staging, stager, store, idevice, ishader, ipipeline, icommand_buffer, iimage, ifence, bound, last>>

\* the rest of the loop body: the barrier is filled and the image slot written (lines 2396-2421)
dispatch_write(t) ==
  /\ thread[t].pc = "write"
  /\ LET res_refl == ThreadReflection(t)[thread[t].i]
         image == ThreadTable(t)[FindImageResource(ThreadTable(t), res_refl.binding)].image
         barrier == [image |-> image, srcAccessMask |-> iimage[image].access_mask, dstAccessMask |-> ShaderAccessMask(res_refl),
                     oldLayout |-> thread[t].old_layout, newLayout |-> RequiredLayout(res_refl.descriptor_type)]
     IN /\ thread' = [thread EXCEPT ![t].pc = "loop", ![t].i = @ + 1, ![t].barriers = Append(@, barrier)]
        /\ iimage' = [iimage EXCEPT ![image] = [layout |-> RequiredLayout(res_refl.descriptor_type), access_mask |-> ShaderAccessMask(res_refl)]]
  /\ UNCHANGED <<pass, renderBuffer, render, staging, stager, store, idevice, ishader, ipipeline, icommand_buffer, ifence, bound, last>>

(***************************************************************************)
(* cgpu_cmd_pipeline_barrier                                               *)
(* buffer_barriers: buffer handles; image_barriers: [image, access_mask].  *)
(***************************************************************************)
\* an image loop that writes the tracked access mask before it fills the barrier
RECURSIVE ImageBarrierLoop_early(_, _, _, _)
ImageBarrierLoop_early(image_barriers, i, images, barriers) ==
  IF i > Len(image_barriers) THEN [result |-> "CGPU_OK", images |-> images, barriers |-> barriers]
  ELSE LET image == image_barriers[i].image
           access_mask == cgpu_translate_access_flags(image_barriers[i].access_mask)
       IN IF ~cgpu_resolve("image", image) THEN [result |-> "CGPU_FAIL_INVALID_HANDLE", images |-> images, barriers |-> barriers]
          ELSE ImageBarrierLoop_early(image_barriers, i + 1, [images EXCEPT ![image].access_mask = access_mask],
                                      Append(barriers, [image |-> image, srcAccessMask |-> access_mask, dstAccessMask |-> access_mask,
                                                        oldLayout |-> images[image].layout, newLayout |-> images[image].layout]))

\* the image loop from barrier i on (lines 2527-2555): the access mask is written as each barrier is translated
RECURSIVE ImageBarrierLoop(_, _, _, _)
ImageBarrierLoop(image_barriers, i, images, barriers) ==
  IF i > Len(image_barriers) THEN [result |-> "CGPU_OK", images |-> images, barriers |-> barriers]
  ELSE LET image == image_barriers[i].image
           access_mask == cgpu_translate_access_flags(image_barriers[i].access_mask)
       IN IF ~cgpu_resolve("image", image) THEN [result |-> "CGPU_FAIL_INVALID_HANDLE", images |-> images, barriers |-> barriers]
          ELSE ImageBarrierLoop(image_barriers, i + 1, [images EXCEPT ![image].access_mask = access_mask],
                                Append(barriers, [image |-> image, srcAccessMask |-> images[image].access_mask, dstAccessMask |-> access_mask,
                                                  oldLayout |-> images[image].layout, newLayout |-> images[image].layout]))

cgpu_cmd_pipeline_barrier(command_buffer, buffer_barriers, image_barriers) ==
  LET \* an image argument goes with the access flags of its barrier
      args == <<<<"command_buffer", command_buffer>>>> \o [i \in 1..Len(buffer_barriers) |-> <<"buffer", buffer_barriers[i]>>]
              \o [i \in 1..Len(image_barriers) |-> <<"image", image_barriers[i].image, image_barriers[i].access_mask>>]
  IN IF ~ResolveCommandBuffer(command_buffer) \/ (\E i \in 1..Len(buffer_barriers) : ~cgpu_resolve("buffer", buffer_barriers[i]))
     THEN InvalidHandle("cgpu_cmd_pipeline_barrier", "command_buffer", args)
     ELSE LET t == ImageBarrierLoop(image_barriers, 1, iimage, <<>>)
          IN /\ last' = IF t.result # "CGPU_OK"
                        THEN Ret("cgpu_cmd_pipeline_barrier", "command_buffer", args, t.result, 0, "none", <<>>)
                        ELSE [Ret("cgpu_cmd_pipeline_barrier", "command_buffer", args, "CGPU_OK", 0, "none", <<Call("vkCmdPipelineBarrier")>>)
                                EXCEPT !.barriers = t.barriers]
             /\ iimage' = t.images
             /\ UNCHANGED <<pass, renderBuffer, render, staging, stager, store, idevice, ishader, ipipeline, icommand_buffer, ifence, thread, bound>>

(***************************************************************************)
(* GiStager (Stager.cpp), the staging buffer of gi.  A method is an        *)
(* operator from the members of the object and the outcomes of the cgpu    *)
(* calls it makes to the members after it, the value it returns and the    *)
(* calls it made.  A cgpu call is an outcome of the environment here.      *)
(***************************************************************************)
BUFFER_SIZE == 64 * 1024 * 1024

\* s_stager is null
NoStager == [exists |-> FALSE, m_stagedBytes |-> 0, m_mappedMem |-> FALSE, recording |-> FALSE, aborted |-> FALSE]

\* the object after its constructor: nothing staged, nothing mapped; recording is the state of m_commandBuffer, begun
\* and not ended
GiStager == [exists |-> TRUE, m_stagedBytes |-> 0, m_mappedMem |-> FALSE, recording |-> FALSE, aborted |-> FALSE]

Returned(s, ret, calls) == [s |-> s, ret |-> ret, calls |-> calls]

Min(a, b) == IF a < b THEN a ELSE b

\* the calls of a chain of cgpu calls that stops at the first one that fails
CallsUntil(names, fail) ==
  LET n == IF \E i \in 1..Len(names) : names[i] = fail THEN CHOOSE i \in 1..Len(names) : names[i] = fail ELSE Len(names)
  IN [i \in 1..n |-> Call(names[i])]

\* assert(m_stagedBytes == 0), as an entry of the calls made
Assertion(s) == <<"assert", IF s.m_stagedBytes = 0 THEN "holds" ELSE "fails">>

\* a failed assertion ends the process, unless the build defines NDEBUG
Aborts(s, ndebug) == s.m_stagedBytes # 0 /\ ~ndebug

GiStager_destructor(s, ndebug) ==
  IF Aborts(s, ndebug) THEN Returned([s EXCEPT !.aborted = TRUE], "void", <<Assertion(s)>>)
  ELSE Returned(NoStager, "void", <<Assertion(s)>>)

free(s, ndebug) ==
  IF Aborts(s, ndebug) THEN Returned([s EXCEPT !.aborted = TRUE], "void", <<Assertion(s)>>)
  ELSE Returned([s EXCEPT !.recording = FALSE], "void", <<Assertion(s), Call("cgpuEndCommandBuffer")>> \o (IF s.m_mappedMem THEN <<Call("cgpuUnmapBuffer")>> ELSE <<>>)
                           \o <<Call("cgpuDestroyFence"), Call("cgpuDestroyCommandBuffer"), Call("cgpuDestroyBuffer")>>)

AllocateCalls == <<"cgpuCreateBuffer", "cgpuCreateCommandBuffer", "cgpuCreateFence", "cgpuMapBuffer", "cgpuBeginCommandBuffer">>

\* rebar: the first cgpuCreateBuffer succeeds; fail: the call that fails, "cgpuCreateBuffer" being the second attempt
allocate(s, rebar, fail, ndebug) ==
  LET calls == (IF rebar THEN <<>> ELSE <<Call("cgpuCreateBuffer")>>) \o CallsUntil(AllocateCalls, fail)
      mapped == [s EXCEPT !.m_mappedMem = fail \in {"none", "cgpuBeginCommandBuffer"}, !.recording = fail = "none"]
  IN IF fail = "none" THEN Returned(mapped, "true", calls)
     ELSE LET f == free(mapped, ndebug) IN Returned(f.s, "false", calls \o f.calls)

FlushCalls == <<"cgpuFlushMappedMemory", "cgpuResetFence", "cgpuEndCommandBuffer", "cgpuSubmitCommandBuffer", "cgpuWaitForFence", "cgpuBeginCommandBuffer">>

\* a flush that forgets the staged bytes whether its calls succeed or not
flush_resetting(s, fail) ==
  IF s.m_stagedBytes = 0 THEN Returned(s, "true", <<>>)
  ELSE IF fail # "none" THEN Returned([s EXCEPT !.m_stagedBytes = 0, !.recording = @ /\ fail \in {"cgpuFlushMappedMemory", "cgpuResetFence"}], "false", CallsUntil(FlushCalls, fail))
  ELSE Returned([s EXCEPT !.m_stagedBytes = 0, !.recording = TRUE], "true", CallsUntil(FlushCalls, fail))

\* a flush that fails leaves m_stagedBytes as it is; the command buffer is ended by cgpuEndCommandBuffer and begun again
\* by the last call only, so a failure from cgpuEndCommandBuffer on leaves it out of the recording state
flush(s, fail) ==
  IF s.m_stagedBytes = 0 THEN Returned(s, "true", <<>>)
  ELSE IF fail # "none" THEN Returned([s EXCEPT !.recording = @ /\ fail \in {"cgpuFlushMappedMemory", "cgpuResetFence"}], "false", CallsUntil(FlushCalls, fail))
  ELSE Returned([s EXCEPT !.m_stagedBytes = 0, !.recording = TRUE], "true", CallsUntil(FlushCalls, fail))

\* the outcomes of the cgpu calls of one staging call: copy_fail is the number of the copyFunc call that fails (0: none),
\* flush_fails[n] the call that fails in the n-th flush
FlushOutcome(env, n) == IF n <= Len(env.flush_fails) THEN env.flush_fails[n] ELSE "none"

\* the command the copyFunc of stageToBuffer and of stageToImage records: the image copy takes the source offset only
copyFunc(cmd, srcOffset, dstOffset, size) ==
  IF cmd = "cgpuCmdCopyBufferToImage" THEN <<cmd, "m_stagingBuffer", srcOffset>>
  ELSE <<cmd, "m_stagingBuffer", srcOffset, dstOffset, size>>

\* the loop of stage (lines 173-201) from the iteration state it: the members, the bytes left, the copyFunc calls and
\* the flushes so far, the calls made
RECURSIVE StageLoop(_, _, _, _)
StageLoop(size, cmd, env, it) ==
  IF it.bytesToStage = 0 THEN Returned(it.s, "true", it.calls)
  ELSE LET bytesAlreadyCopied == size - it.bytesToStage
           availableSpace == BUFFER_SIZE - it.s.m_stagedBytes
           memcpyByteCount == Min(it.bytesToStage, availableSpace)
           copied == it.calls \o <<<<"memcpy", it.s.m_stagedBytes, bytesAlreadyCopied, memcpyByteCount>>,
                                   copyFunc(cmd, it.s.m_stagedBytes, bytesAlreadyCopied, memcpyByteCount)>>
           staged == [it.s EXCEPT !.m_stagedBytes = @ + memcpyByteCount]
           f == flush(staged, FlushOutcome(env, it.flushes + 1))
       IN IF it.copies + 1 = env.copy_fail THEN Returned(it.s, "false", copied)
          ELSE IF staged.m_stagedBytes # BUFFER_SIZE
          THEN StageLoop(size, cmd, env, [s |-> staged, bytesToStage |-> it.bytesToStage - memcpyByteCount, copies |-> it.copies + 1,
                                          flushes |-> it.flushes, calls |-> copied])
          ELSE IF f.ret = "true"
          THEN StageLoop(size, cmd, env, [s |-> f.s, bytesToStage |-> it.bytesToStage - memcpyByteCount, copies |-> it.copies + 1,
                                          flushes |-> it.flushes + 1, calls |-> copied \o f.calls])
          ELSE Returned(f.s, "false", copied \o f.calls)

stage(s, size, cmd, env, flushes, calls) ==
  StageLoop(size, cmd, env, [s |-> s, bytesToStage |-> size, copies |-> 0, flushes |-> flushes, calls |-> calls])

stageToBuffer(s, size, env) == stage(s, size, "cgpuCmdCopyBuffer", env, 0, <<>>)

\* a staging of an image with no flush before an image that does not fit
stageToImage_unflushed(s, size, env) ==
  IF size > BUFFER_SIZE THEN Returned(s, "false", <<>>)
  ELSE stage(s, size, "cgpuCmdCopyBufferToImage", env, 0, <<>>)

stageToImage(s, size, env) ==
  LET availableSpace == BUFFER_SIZE - s.m_stagedBytes
      f == flush(s, FlushOutcome(env, 1))
  IN IF size > BUFFER_SIZE THEN Returned(s, "false", <<>>)
     ELSE IF availableSpace < size
     THEN IF f.ret # "true" THEN Returned(f.s, "false", f.calls)
          ELSE stage(f.s, size, "cgpuCmdCopyBufferToImage", env, 1, f.calls)
     ELSE stage(s, size, "cgpuCmdCopyBufferToImage", env, 0, <<>>)

(***************************************************************************)
(* gi.h: the calls of gi on s_stager.  Sizes are whole parts of the        *)
(* staging buffer, and sizes past its end.                                 *)
(***************************************************************************)
StageShift == 2

StagePart == BUFFER_SIZE \div (2^StageShift)

StageSizes == {k * StagePart : k \in 0..(2^StageShift + 1)}

ImageSizes == StageSizes \cup {BUFFER_SIZE + 1}

FlushFailures == {"none"} \cup Range(FlushCalls)

AllocateFailures == {"none"} \cup Range(AllocateCalls)

StageOutcomes == [copy_fail : 0..2, flush_fails : FlushFailures \X FlushFailures]

CgpuState == <<store, idevice, ishader, ipipeline, icommand_buffer, iimage, ifence, thread, bound>>

\* the stager part of giTerminate (lines 583-587): free, then the destructor through reset
TerminateStager(s, ndebug) ==
  LET f == free(s, ndebug)
      d == GiStager_destructor(f.s, ndebug)
  IN IF ~s.exists THEN Returned(s, "void", <<>>)
     ELSE IF f.s.aborted THEN f
     ELSE Returned(d.s, "void", f.calls \o d.calls)

\* the stager part of giInitialize (lines 529-533, 563-566): later is a failure of a step after the stager is allocated
giInitialize(rebar, fail, later, ndebug) ==
  LET a == allocate(GiStager, rebar, fail, ndebug)
      t == TerminateStager(a.s, ndebug)
  IN /\ ~stager.exists /\ ~stager.aborted
     /\ fail = "cgpuCreateBuffer" => ~rebar
     /\ IF a.ret = "true" /\ ~later
        THEN /\ stager' = a.s
             /\ last' = Ret("giInitialize", "stager", <<>>, "GiStatus::Ok", 0, "none", a.calls)
        ELSE /\ stager' = t.s
             /\ last' = Ret("giInitialize", "stager", <<>>, "GiStatus::Error", 0, "none", a.calls \o t.calls)
     /\ UNCHANGED <<pass, renderBuffer, render, staging, CgpuState>>

giTerminate(ndebug) ==
  LET t == TerminateStager(stager, ndebug)
  IN /\ ~stager.aborted
     /\ stager' = t.s
     /\ last' = [Ret("giTerminate", "stager", <<>>, "void", 0, "none", t.calls) EXCEPT !.input = <<stager.m_stagedBytes>>]
     /\ UNCHANGED <<pass, renderBuffer, render, staging, CgpuState>>

\* a call of a method of the live stager: the members after it, and the size given and the bytes staged before it
StagerCall(op, r, input) ==
  /\ stager.exists /\ ~stager.aborted
  /\ stager' = r.s
  /\ last' = [Ret(op, "stager", <<>>, r.ret, 0, "none", r.calls) EXCEPT !.input = input]
  /\ UNCHANGED <<pass, renderBuffer, render, staging, CgpuState>>

\* the upload of the BLAS payload addresses (lines 983-987): staged when there are payloads, with no flush after it
giCreateGeomCache(size, env) ==
  /\ size > 0
  /\ StagerCall("giCreateGeomCache", stageToBuffer(stager, size, env), <<size, stager.m_stagedBytes>>)

StageToImage(size, env) == StagerCall("stageToImage", stageToImage(stager, size, env), <<size, stager.m_stagedBytes>>)

Flush(fail) == StagerCall("flush", flush(stager, fail), <<0, stager.m_stagedBytes>>)

(***************************************************************************)
(* GiStager::stage as the steps of its loop, for a call of stageToBuffer.  *)
(* A chunk is one recorded copy: src the offset in the source, offset the  *)
(* offset in the staging buffer, count the bytes, recording the state of   *)
(* the command buffer when the copy was recorded.                          *)
(***************************************************************************)
NotStaging == [pc |-> "idle", size |-> 0, bytesToStage |-> 0, prior |-> 0, chunks |-> <<>>, flushed |-> <<>>, result |-> "none"]

\* line 171: the call starts with all size bytes to stage
stage_enter(size) ==
  /\ stager.exists /\ ~stager.aborted /\ staging.pc = "idle"
  /\ staging' = [pc |-> "loop", size |-> size, bytesToStage |-> size, prior |-> stager.m_stagedBytes, chunks |-> <<>>, flushed |-> <<>>, result |-> "none"]
  /\ UNCHANGED <<pass, renderBuffer, render, store, idevice, ishader, ipipeline, icommand_buffer, iimage, ifence, thread, stager, bound, last>>

\* a step that never flushes a full staging buffer
stage_step_unflushed(copy_ok, fail) ==
  LET bytesAlreadyCopied == staging.size - staging.bytesToStage
      availableSpace == BUFFER_SIZE - stager.m_stagedBytes
      memcpyByteCount == Min(staging.bytesToStage, availableSpace)
      chunk == [src |-> bytesAlreadyCopied, offset |-> stager.m_stagedBytes, count |-> memcpyByteCount, recording |-> stager.recording]
      staged == [stager EXCEPT !.m_stagedBytes = @ + memcpyByteCount]
  IN /\ staging.pc = "loop"
     /\ IF staging.bytesToStage = 0
        THEN staging' = [staging EXCEPT !.pc = "idle", !.result = "true"] /\ UNCHANGED stager
        ELSE IF ~copy_ok
        THEN /\ staging' = [staging EXCEPT !.pc = "idle", !.result = "false", !.bytesToStage = @ - memcpyByteCount]
             /\ UNCHANGED stager
        ELSE /\ staging' = [staging EXCEPT !.bytesToStage = @ - memcpyByteCount, !.chunks = Append(@, chunk)]
             /\ stager' = staged
     /\ UNCHANGED <<pass, renderBuffer, render, store, idevice, ishader, ipipeline, icommand_buffer, iimage, ifence, thread, bound, last>>

\* one pass of the loop (lines 173-201), or its exit (line 203): copy_ok is the outcome of copyFunc, fail the call that
\* fails in the flush of a full staging buffer
stage_step(copy_ok, fail) ==
  LET bytesAlreadyCopied == staging.size - staging.bytesToStage
      availableSpace == BUFFER_SIZE - stager.m_stagedBytes
      memcpyByteCount == Min(staging.bytesToStage, availableSpace)
      chunk == [src |-> bytesAlreadyCopied, offset |-> stager.m_stagedBytes, count |-> memcpyByteCount, recording |-> stager.recording]
      staged == [stager EXCEPT !.m_stagedBytes = @ + memcpyByteCount]
      f == flush(staged, fail)
  IN /\ staging.pc = "loop"
     /\ IF staging.bytesToStage = 0
        THEN staging' = [staging EXCEPT !.pc = "idle", !.result = "true"] /\ UNCHANGED stager
        ELSE IF ~copy_ok
        THEN /\ staging' = [staging EXCEPT !.pc = "idle", !.result = "false", !.bytesToStage = @ - memcpyByteCount]
             /\ UNCHANGED stager
        ELSE IF staged.m_stagedBytes # BUFFER_SIZE
        THEN /\ staging' = [staging EXCEPT !.bytesToStage = @ - memcpyByteCount, !.chunks = Append(@, chunk)]
             /\ stager' = staged
        ELSE /\ staging' = [staging EXCEPT !.bytesToStage = @ - memcpyByteCount, !.chunks = Append(@, chunk), !.flushed = Append(@, fail),
                                            !.pc = IF f.ret = "true" THEN "loop" ELSE "idle",
                                            !.result = IF f.ret = "true" THEN "none" ELSE "false"]
             /\ stager' = f.s
     /\ UNCHANGED <<pass, renderBuffer, render, store, idevice, ishader, ipipeline, icommand_buffer, iimage, ifence, thread, bound, last>>

(***************************************************************************)
(* gi.h: giRender and the requests to invalidate the framebuffer.  The     *)
(* flag s_resetSampleOffset is atomic; giRender reads it (line 1594) and   *)
(* clears it (line 1597) in two accesses, and a request can come from the  *)
(* file watcher thread between any two steps.  waiting and late are the    *)
(* requests not yet answered by a reset: waiting those made before the     *)
(* render in progress started (or while none runs), late those made since. *)
(***************************************************************************)
MaxSamples == 3

NotRendering == [pc |-> "idle", s_resetSampleOffset |-> FALSE, sampleOffset |-> 0, waiting |-> FALSE, late |-> FALSE, by |-> "none"]

\* a request: giInvalidateFramebuffer (line 1489) or handleFileAction (line 387) sets the flag
Invalidate(by) ==
  /\ render' = [render EXCEPT !.s_resetSampleOffset = TRUE, !.by = by,
                              !.waiting = @ \/ render.pc = "idle", !.late = @ \/ render.pc # "idle"]
  /\ UNCHANGED <<pass, renderBuffer, store, idevice, ishader, ipipeline, icommand_buffer, iimage, ifence, thread, stager, staging, bound, last>>

giInvalidateFramebuffer == Invalidate("giInvalidateFramebuffer")

handleFileAction == Invalidate("handleFileAction")

RenderStep(after) ==
  /\ render' = after
  /\ UNCHANGED <<pass, renderBuffer, store, idevice, ishader, ipipeline, icommand_buffer, iimage, ifence, thread, stager, staging, bound, last>>

\* giRender up to the check of the flag (lines 1502-1592); a failed resize returns before it
giRender_enter(resized) ==
  /\ render.pc = "idle"
  /\ RenderStep(IF resized THEN [render EXCEPT !.pc = "check"] ELSE render)

\* line 1594: the read of the flag
giRender_check ==
  /\ render.pc = "check"
  /\ RenderStep([render EXCEPT !.pc = IF render.s_resetSampleOffset THEN "reset" ELSE "render"])

\* line 1596: this render started after every request that was waiting
giRender_reset ==
  /\ render.pc = "reset"
  /\ RenderStep([render EXCEPT !.pc = "clear", !.sampleOffset = 0, !.waiting = FALSE])

\* line 1597: the write of the flag
giRender_clear ==
  /\ render.pc = "clear"
  /\ RenderStep([render EXCEPT !.pc = "render", !.s_resetSampleOffset = FALSE])

\* the rest of giRender (lines 1600-1797): the samples are added, and the requests made during it wait for the next
giRender_return(spp) ==
  /\ render.pc = "render"
  /\ render.sampleOffset + spp <= MaxSamples
  /\ RenderStep([render EXCEPT !.pc = "idle", !.sampleOffset = @ + spp, !.waiting = @ \/ render.late, !.late = FALSE])

(***************************************************************************)
(* gi.h: the render buffer and _giResizeRenderBufferIfNeeded.  The buffers *)
(* are handles of the buffer store of cgpu; s_device is live throughout.   *)
(* cgpuCreateBuffer writes the handle it allocated to its out-parameter    *)
(* and frees it again when it fails.                                       *)
(***************************************************************************)
MaxExtent == 2

NoRenderBuffer == [exists |-> FALSE, buffer |-> 0, stagingBuffer |-> 0, bufferWidth |-> 0, bufferHeight |-> 0, width |-> 0, height |-> 0, destroyed |-> {}]

\* the members after new GiRenderBuffer{ .width, .height }: the handles are 0
giCreateRenderBuffer(width, height) ==
  /\ ~renderBuffer.exists
  /\ renderBuffer' = [NoRenderBuffer EXCEPT !.exists = TRUE, !.width = width, !.height = height]
  /\ last' = [Ret("giCreateRenderBuffer", "renderBuffer", <<>>, "void", 0, "none", <<>>) EXCEPT !.input = <<width, height>>]
  /\ UNCHANGED <<pass, store, idevice, ishader, ipipeline, icommand_buffer, iimage, ifence, thread, stager, staging, render, bound>>

\* cgpuDestroyBuffer on the buffer store: a handle that does not resolve is refused
cgpuDestroyBuffer(s, handle) == IF resource_store_get(s, handle) THEN resource_store_free_handle(s, handle) ELSE s

\* cgpuCreateBuffer on the buffer store: the store after it; the handle in the out-parameter is resource_store_next_handle
cgpuCreateBuffer(s, ok) ==
  IF ok THEN resource_store_create_handle(s)
  ELSE resource_store_free_handle(resource_store_create_handle(s), resource_store_next_handle(s))

\* the destroy calls made on handles that did not resolve, added to those before
DeadDestroys(rb, s, handles) == rb.destroyed \cup {h \in Range(handles) : h # 0 /\ ~resource_store_get(s, h)}

\* the render buffer with the destroy of one handle noted
DeadDestroysOf(rb, s, handle) == [rb EXCEPT !.destroyed = DeadDestroys(rb, s, <<handle>>)]

\* fail: the cgpuCreateBuffer that fails, "none" if neither does
_giResizeRenderBufferIfNeeded(fail) ==
  LET rb == renderBuffer
      s0 == store["buffer"]
      reallocBuffers == rb.bufferWidth # rb.width \/ rb.bufferHeight # rb.height
      \* lines 428-437: the handles that are not 0 are destroyed and set to 0
      s1 == IF rb.buffer # 0 THEN cgpuDestroyBuffer(s0, rb.buffer) ELSE s0
      s2 == IF rb.stagingBuffer # 0 THEN cgpuDestroyBuffer(s1, rb.stagingBuffer) ELSE s1
      cleared == [rb EXCEPT !.buffer = 0, !.stagingBuffer = 0,
                            !.destroyed = DeadDestroys(DeadDestroysOf(rb, s0, rb.buffer), s1, <<rb.stagingBuffer>>)]
      \* lines 446-454: the first buffer
      buffer == resource_store_next_handle(s2)
      s3 == cgpuCreateBuffer(s2, fail # "buffer")
      \* lines 456-465: the staging buffer, and the destroy of the first buffer when it fails
      stagingBuffer == resource_store_next_handle(s3)
      s4 == cgpuCreateBuffer(s3, fail # "stagingBuffer")
      s5 == cgpuDestroyBuffer(s4, buffer)
      ret(result, after, s) ==
        /\ renderBuffer' = after
        /\ store' = [store EXCEPT !["buffer"] = s]
        /\ last' = [Ret("_giResizeRenderBufferIfNeeded", "renderBuffer", <<>>, result, 0, fail, <<>>) EXCEPT !.input = <<rb.width, rb.height>>]
  IN /\ renderBuffer.exists
     /\ IF ~reallocBuffers THEN ret("true", rb, s0)
        ELSE IF rb.width = 0 \/ rb.height = 0 THEN ret("true", cleared, s2)
        ELSE IF fail = "buffer" THEN ret("false", [cleared EXCEPT !.buffer = buffer], s3)
        ELSE IF fail = "stagingBuffer"
        THEN ret("false", [cleared EXCEPT !.buffer = buffer, !.stagingBuffer = stagingBuffer,
                                           !.destroyed = DeadDestroys(cleared, s4, <<buffer>>)], s5)
        ELSE ret("true", [cleared EXCEPT !.buffer = buffer, !.stagingBuffer = stagingBuffer,
                                          !.bufferWidth = rb.width, !.bufferHeight = rb.height], s4)
     /\ UNCHANGED <<pass, idevice, ishader, ipipeline, icommand_buffer, iimage, ifence, thread, stager, staging, render, bound>>

\* giDestroyRenderBuffer: the handles that are not 0 are destroyed, and the object deleted
giDestroyRenderBuffer ==
  LET rb == renderBuffer
      s0 == store["buffer"]
      s1 == IF rb.buffer # 0 THEN cgpuDestroyBuffer(s0, rb.buffer) ELSE s0
      s2 == IF rb.stagingBuffer # 0 THEN cgpuDestroyBuffer(s1, rb.stagingBuffer) ELSE s1
  IN /\ renderBuffer.exists
     /\ renderBuffer' = NoRenderBuffer
     /\ store' = [store EXCEPT !["buffer"] = s2]
     /\ last' = [Ret("giDestroyRenderBuffer", "renderBuffer", <<>>, "void", 0, "none", <<>>)
                 EXCEPT !.input = DeadDestroys(DeadDestroysOf(rb, s0, rb.buffer), s1, <<rb.stagingBuffer>>)]
     /\ UNCHANGED <<pass, idevice, ishader, ipipeline, icommand_buffer, iimage, ifence, thread, stager, staging, render, bound>>

(***************************************************************************)
(* hdGatling: HdGatlingRenderPass.  Every AOV name has a render buffer of  *)
(* its own; image is the AOV id the content of a buffer was rendered for.  *)
(* The header of the class is not part of the sources: m_lastAovId has no  *)
(* initializer in the constructor, so its first value is any AOV id.       *)
(***************************************************************************)
\* the value the last versions are constructed with: 2^32 - 1 in the source, here the largest number the checker has;
\* the versions of the model stay below it
UINT32_MAX == 2147483647

MaxVersion == 2

AovNames == {"color", "normal", "depth"}

AovIds == {"GI_AOV_ID_COLOR", "GI_AOV_ID_NORMAL"}

NoShaderCache == [exists |-> FALSE, aov_id |-> "none"]

NoRenderPass ==
  [exists |-> FALSE, m_isConverged |-> FALSE, m_lastSceneStateVersion |-> UINT32_MAX, m_lastRenderSettingsVersion |-> UINT32_MAX,
   m_lastBackgroundColor |-> 0, m_lastAovId |-> "GI_AOV_ID_COLOR", m_geomCache |-> FALSE, m_shaderCache |-> NoShaderCache,
   sceneStateVersion |-> 1, renderSettingsVersion |-> 1, selected |-> "none",
   buffers |-> [a \in AovNames |-> [converged |-> FALSE, image |-> "none"]]]

IsConverged == pass.m_isConverged

\* the bindings a render pass state can hold: none, one, or two with the second a supported AOV
AovBindings == {<<>>} \cup {<<a>> : a \in AovNames} \cup {b \in AovNames \X {"color", "normal"} : b[1] # b[2]}

\* the index of the first binding of a supported AOV, 0 if there is none
RECURSIVE _FilterAovBinding(_, _)
_FilterAovBinding(aovBindings, i) ==
  IF i > Len(aovBindings) THEN 0
  ELSE IF aovBindings[i] \notin {"color", "normal"} THEN _FilterAovBinding(aovBindings, i + 1)
  ELSE i

_GetAovId(aovName) == IF aovName = "normal" THEN "GI_AOV_ID_NORMAL" ELSE "GI_AOV_ID_COLOR"

\* what one _Execute did, for the properties
Executed(phase, aovId, differs, marked, rebuilt, rendered, able) ==
  [Ret("_Execute", "pass", <<>>, "void", 0, phase, <<>>)
     EXCEPT !.input = [aovId |-> aovId, differs |-> differs, marked |-> marked, rebuilt |-> rebuilt, rendered |-> rendered, able |-> able]]

\* lastAovId: the indeterminate first value of m_lastAovId
HdGatlingRenderPass(lastAovId) ==
  /\ ~pass.exists
  /\ pass' = [NoRenderPass EXCEPT !.exists = TRUE, !.m_lastAovId = lastAovId,
                                  !.sceneStateVersion = pass.sceneStateVersion, !.renderSettingsVersion = pass.renderSettingsVersion]
  /\ last' = Ret("HdGatlingRenderPass", "pass", <<>>, "void", 0, "none", <<>>)
  /\ UNCHANGED <<store, idevice, ishader, ipipeline, icommand_buffer, iimage, ifence, thread, stager, staging, render, renderBuffer, bound>>

HdGatlingRenderPass_destructor ==
  /\ pass.exists
  /\ pass' = [NoRenderPass EXCEPT !.sceneStateVersion = pass.sceneStateVersion, !.renderSettingsVersion = pass.renderSettingsVersion]
  /\ last' = Ret("~HdGatlingRenderPass", "pass", <<>>, "void", 0, "none", <<>>)
  /\ UNCHANGED <<store, idevice, ishader, ipipeline, icommand_buffer, iimage, ifence, thread, stager, staging, render, renderBuffer, bound>>

\* the change tracker of the render index counts a change of the scene
MarkSceneDirty ==
  /\ pass.sceneStateVersion < MaxVersion
  /\ pass' = [pass EXCEPT !.sceneStateVersion = @ + 1]
  /\ UNCHANGED <<store, idevice, ishader, ipipeline, icommand_buffer, iimage, ifence, thread, stager, staging, render, renderBuffer, bound, last>>

\* the render delegate counts a change of a render setting
SetRenderSetting ==
  /\ pass.renderSettingsVersion < MaxVersion
  /\ pass' = [pass EXCEPT !.renderSettingsVersion = @ + 1]
  /\ UNCHANGED <<store, idevice, ishader, ipipeline, icommand_buffer, iimage, ifence, thread, stager, staging, render, renderBuffer, bound, last>>

\* camera: the state has a HdGatlingCamera; clearValue: -1 when it holds no GfVec4f, else the colour; geom_ok, shader_ok:
\* giCreateGeomCache, giCreateShaderCache return a cache; ndebug: the build defines NDEBUG
_Execute(camera, aovBindings, format_ok, clearValue, geom_ok, shader_ok, ndebug) ==
  LET p0 == [pass EXCEPT !.m_isConverged = FALSE]
      i == _FilterAovBinding(aovBindings, 1)
      \* _FilterAovBinding marks the buffers of the bindings it passes over converged
      passed == {aovBindings[k] : k \in 1..(IF i = 0 THEN Len(aovBindings) ELSE i - 1)}
      p1 == [p0 EXCEPT !.buffers = [a \in AovNames |-> IF a \in passed THEN [p0.buffers[a] EXCEPT !.converged = TRUE] ELSE p0.buffers[a]]]
      aovName == aovBindings[i]
      backgroundColor == IF clearValue = -1 THEN 0 ELSE clearValue
      aovId == _GetAovId(aovName)
      sceneChanged == pass.sceneStateVersion # pass.m_lastSceneStateVersion
      renderSettingsChanged == pass.renderSettingsVersion # pass.m_lastRenderSettingsVersion
      backgroundColorChanged == backgroundColor # pass.m_lastBackgroundColor
      aovChanged == aovId # pass.m_lastAovId
      differs == pass.selected # "none" /\ aovId # pass.selected
      p2 == [p1 EXCEPT !.selected = aovId]
      \* lines 328-333
      p3 == [p2 EXCEPT !.buffers[aovName].converged = FALSE,
                       !.m_lastSceneStateVersion = pass.sceneStateVersion,
                       !.m_lastRenderSettingsVersion = pass.renderSettingsVersion,
                       !.m_lastBackgroundColor = backgroundColor,
                       !.m_lastAovId = aovId]
      \* lines 335-375
      rebuildGeomCache == ~pass.m_geomCache \/ (~ndebug /\ renderSettingsChanged)
      p4 == IF rebuildGeomCache THEN [p3 EXCEPT !.m_geomCache = geom_ok] ELSE p3
      \* lines 377-402
      rebuildShaderCache == ~pass.m_shaderCache.exists \/ aovChanged \/ (~ndebug /\ renderSettingsChanged)
      rebuilt == p4.m_geomCache /\ rebuildShaderCache
      p5 == IF rebuilt
            THEN [p4 EXCEPT !.m_shaderCache = IF shader_ok THEN [exists |-> TRUE, aov_id |-> aovId] ELSE NoShaderCache]
            ELSE p4
      \* lines 431-440: the image is rendered with the shader cache
      p6 == [p5 EXCEPT !.buffers[aovName] = [converged |-> TRUE, image |-> p5.m_shaderCache.aov_id], !.m_isConverged = TRUE]
      able == geom_ok /\ shader_ok
      ret(after, r) == pass' = after /\ last' = r
  IN /\ pass.exists
     /\ IF ~camera THEN ret(p0, Executed("camera", "none", FALSE, FALSE, FALSE, FALSE, able))
        ELSE IF aovBindings = <<>> THEN ret(p0, Executed("empty", "none", FALSE, FALSE, FALSE, FALSE, able))
        ELSE IF i = 0 THEN ret(p1, Executed("unsupported", "none", FALSE, FALSE, FALSE, FALSE, able))
        ELSE IF ~format_ok THEN ret(p1, Executed("format", "none", FALSE, FALSE, FALSE, FALSE, able))
        ELSE IF ~sceneChanged /\ ~renderSettingsChanged /\ ~backgroundColorChanged
        THEN ret([p2 EXCEPT !.buffers[aovName].converged = TRUE], Executed("unchanged", aovId, differs, TRUE, FALSE, FALSE, able))
        ELSE IF ~p5.m_geomCache \/ ~p5.m_shaderCache.exists
        THEN ret(p5, Executed("caches", aovId, differs, FALSE, rebuilt, FALSE, able))
        ELSE ret(p6, Executed("rendered", aovId, differs, TRUE, rebuilt, TRUE, able))
     /\ UNCHANGED <<store, idevice, ishader, ipipeline, icommand_buffer, iimage, ifence, thread, stager, staging, render, renderBuffer, bound>>

(***************************************************************************)
(* The inputs of the environment.                                          *)
(***************************************************************************)
\* physical device counts and the index asked for
DeviceQueries ==
  {[count |-> 0, index |-> 0], [count |-> 1, index |-> 0], [count |-> 1, index |-> 1],
   [count |-> MAX_PHYSICAL_DEVICES, index |-> MAX_PHYSICAL_DEVICES - 1], [count |-> MAX_PHYSICAL_DEVICES, index |-> MAX_PHYSICAL_DEVICES],
   [count |-> MAX_PHYSICAL_DEVICES + 1, index |-> 0], [count |-> MAX_PHYSICAL_DEVICES + 1, index |-> MAX_PHYSICAL_DEVICES + 1]}

\* shader reflections: no resource, images, a descriptor type the pipeline does not tally, as many resources as the binding limit
NoResources == <<>>
OneImage == <<Resource(0, "SAMPLED_IMAGE", TRUE, FALSE)>>
TwoImages == <<Resource(0, "STORAGE_IMAGE", TRUE, TRUE), Resource(1, "COMBINED_IMAGE_SAMPLER", TRUE, FALSE)>>
Untallied == <<Resource(0, "STORAGE_BUFFER", TRUE, TRUE), Resource(1, "UNIFORM_BUFFER", TRUE, FALSE)>>
TooMany == [i \in 1..MAX_DESCRIPTOR_SET_LAYOUT_BINDINGS |-> Resource(i - 1, "STORAGE_BUFFER", TRUE, TRUE)]

\* what an image table passed to cgpu_update_resources, or found in a slot never written, may be
ImageBinding(binding, image) == [binding |-> binding, image |-> image]
ImageTables == {<<>>, <<ImageBinding(0, 1)>>, <<ImageBinding(0, 2)>>, <<ImageBinding(0, 1), ImageBinding(1, 1)>>, <<ImageBinding(0, 1), ImageBinding(1, 2)>>}
GarbagePipelines == [shader : 0..1, image_resources : ImageTables]

BufferBinding(binding, buffer, offset) == [binding |-> binding, buffer |-> buffer, offset |-> offset]

\* the handle values a caller passes when the resources are used: 0 and the first slot, which is beyond the high-water mark of an empty store
UsedArgs == 0..MaxUsed

\* the buffer and image bindings a caller passes then: one list is empty
UsedBindings == {[buffers |-> <<>>, images |-> <<>>], [buffers |-> <<BufferBinding(2, 1, 3), BufferBinding(3, 0, 0)>>, images |-> <<>>],
                 [buffers |-> <<BufferBinding(2, 1, 4), BufferBinding(3, 1, 3)>>, images |-> <<>>]}
                \cup {[buffers |-> <<BufferBinding(2, b, o)>>, images |-> <<>>] : b \in UsedArgs, o \in {3, 4}}
                \cup {[buffers |-> <<>>, images |-> <<ImageBinding(0, i)>>] : i \in UsedArgs}

\* the buffer and image barriers a caller passes then
ImageBarrier(image, access_mask) == [image |-> image, access_mask |-> access_mask]
UsedBarriers == {[buffers |-> <<b>>, images |-> <<>>] : b \in UsedArgs}
                \cup {[buffers |-> <<>>, images |-> <<ImageBarrier(i, {"CGPU_MEMORY_ACCESS_FLAG_SHADER_READ", "CGPU_MEMORY_ACCESS_FLAG_PADDING"})>>] : i \in UsedArgs}
                \cup {[buffers |-> <<>>, images |-> <<ImageBarrier(1, {"CGPU_MEMORY_ACCESS_FLAG_TRANSFER_WRITE"}), ImageBarrier(0, {})>>]}

\* offset and count of a timestamp copy: in range, out of range, a sum that wraps
TimestampRanges == {[offset |-> UInt32(0, 0), count |-> UInt32(0, MAX_TIMESTAMP_QUERIES)], [offset |-> UInt32(0, 1), count |-> UInt32(0, MAX_TIMESTAMP_QUERIES)],
                    [offset |-> UInt32(UInt32Half - 1, UInt32Half - 1), count |-> UInt32(0, 1)]}

(***************************************************************************)
(* The state after cgpu_initialize: eight empty stores.  The slots of a    *)
(* store are written before they are read, but for the pipeline slot,      *)
(* which takes its value when it is first handed out.                      *)
(***************************************************************************)
Init ==
  /\ store = [kind \in Kinds |-> resource_store_create]
  /\ idevice = [h \in 1..MaxDevices |-> [minStorageBufferOffsetAlignment |-> 1]]
  /\ ishader = [h \in 1..MaxSlots |-> [reflection |-> <<>>]]
  /\ ipipeline = [h \in 1..MaxSlots |-> [shader |-> CGPU_INVALID_HANDLE, image_resources |-> <<>>]]
  /\ icommand_buffer = [h \in 1..MaxSlots |-> [device |-> CGPU_INVALID_HANDLE, pipeline |-> CGPU_INVALID_HANDLE]]
  /\ iimage = [h \in 1..MaxSlots |-> [layout |-> "UNDEFINED", access_mask |-> {}]]
  /\ ifence = [h \in 1..MaxSlots |-> NoFence]
  /\ thread = [t \in Threads |-> Idle]
  /\ stager = NoStager
  /\ staging = NotStaging
  /\ render = NotRendering
  /\ renderBuffer = NoRenderBuffer
  /\ pass = NoRenderPass
  /\ bound = [h \in 1..MaxSlots |-> <<>>]
  /\ last = [op |-> "cgpu_initialize", kind |-> "none", args |-> <<>>, result |-> "CGPU_OK", handle |-> 0, phase |-> "none", calls |-> <<>>,
             barriers |-> <<>>, pre |-> {}, was |-> [layout |-> "NONE", access_mask |-> {}], pool_sizes |-> <<>>, input |-> <<>>, reused |-> FALSE]

(***************************************************************************)
(* Spec: every operation that creates or destroys, with every failure      *)
(* branch.                                                                 *)
(***************************************************************************)
CreateDevice == \/ \E q \in DeviceQueries : cgpu_create_device(q.count, q.index, 4, "none")
                \/ \E fail \in DeviceFailPoints : cgpu_create_device(1, 0, 4, fail)
DestroyDevice == \E device \in SlotArgs("device") : cgpu_destroy_device(device)
CreateShader == \E device \in SlotArgs("device"), reflection \in {NoResources, Untallied, TooMany}, fail \in {"none", "shader_module", "reflection"} : Fits("shader", MaxSlots, MaxTotalSlots) /\ cgpu_create_shader(device, reflection, fail)
DestroyShader == \E device \in SlotArgs("device"), shader \in SlotArgs("shader") : cgpu_destroy_shader(device, shader)
CreateBuffer == \E device \in SlotArgs("device"), fail \in {"none", "buffer"} : Fits("buffer", MaxSlots, MaxTotalSlots) /\ cgpu_create_buffer(device, fail)
DestroyBuffer == \E device \in SlotArgs("device"), buffer \in SlotArgs("buffer") : cgpu_destroy_buffer(device, buffer)
CreateImage == \E device \in SlotArgs("device"), fail \in {"none", "image", "image_view"} : Fits("image", MaxSlots, MaxTotalSlots) /\ cgpu_create_image(device, fail)
DestroyImage == \E device \in SlotArgs("device"), image \in SlotArgs("image") : cgpu_destroy_image(device, image)
CreateSampler == \E device \in SlotArgs("device"), fail \in {"none", "sampler"} : Fits("sampler", MaxSlots, MaxTotalSlots) /\ cgpu_create_sampler(device, fail)
DestroySampler == \E device \in SlotArgs("device"), sampler \in SlotArgs("sampler") : cgpu_destroy_sampler(device, sampler)
CreatePipeline == \E device \in SlotArgs("device"), shader \in SlotArgs("shader"), fail \in PipelineFailPoints \cup {"none"} : Fits("pipeline", MaxSlots, MaxTotalSlots) /\ cgpu_create_pipeline(device, shader, [shader |-> 0, image_resources |-> <<>>], fail)
DestroyPipeline == \E device \in SlotArgs("device"), pipeline \in SlotArgs("pipeline") : cgpu_destroy_pipeline(device, pipeline)
CreateCommandBuffer == \E device \in SlotArgs("device"), fail \in {"none", "command_buffer"} : Fits("command_buffer", MaxSlots, MaxTotalSlots) /\ cgpu_create_command_buffer(device, fail)
DestroyCommandBuffer == \E device \in SlotArgs("device"), command_buffer \in SlotArgs("command_buffer") : cgpu_destroy_command_buffer(device, command_buffer)
CreateFence == \E device \in SlotArgs("device"), fail \in {"none", "fence"} : Fits("fence", MaxSlots, MaxTotalSlots) /\ cgpu_create_fence(device, fail)
DestroyFence == \E device \in SlotArgs("device"), fence \in SlotArgs("fence") : cgpu_destroy_fence(device, fence)

Next ==
  \/ CreateDevice \/ DestroyDevice \/ CreateShader \/ DestroyShader \/ CreateBuffer \/ DestroyBuffer \/ CreateImage \/ DestroyImage
  \/ CreateSampler \/ DestroySampler \/ CreatePipeline \/ DestroyPipeline \/ CreateCommandBuffer \/ DestroyCommandBuffer
  \/ CreateFence \/ DestroyFence

Spec == Init /\ [][Next]_vars

(***************************************************************************)
(* SpecUse: the operations that use the resources, called with handles     *)
(* that are 0, beyond the high-water mark, destroyed or live.  Resources   *)
(* are created, without failures, and destroyed.                           *)
(***************************************************************************)
UseCreateDevice == cgpu_create_device(1, 0, 4, "none")
UseDestroyDevice == \E device \in UsedArgs : cgpu_destroy_device(device)
UseCreateShader == \E device \in UsedArgs : Fits("shader", MaxUsed, MaxUsedSlots) /\ cgpu_create_shader(device, NoResources, "none")
UseDestroyShader == \E device, shader \in UsedArgs : cgpu_destroy_shader(device, shader)
UseCreateBuffer == \E device \in UsedArgs : Fits("buffer", MaxUsed, MaxUsedSlots) /\ cgpu_create_buffer(device, "none")
UseDestroyBuffer == \E device, buffer \in UsedArgs : cgpu_destroy_buffer(device, buffer)
UseCreateImage == \E device \in UsedArgs : Fits("image", MaxUsed, MaxUsedSlots) /\ cgpu_create_image(device, "none")
UseDestroyImage == \E device, image \in UsedArgs : cgpu_destroy_image(device, image)
UseCreatePipeline == \E garbage \in [shader : UsedArgs, image_resources : {<<>>}] : Fits("pipeline", MaxUsed, MaxUsedSlots) /\ cgpu_create_pipeline(1, 1, garbage, "none")
UseDestroyPipeline == \E device, pipeline \in UsedArgs : cgpu_destroy_pipeline(device, pipeline)
UseCreateCommandBuffer == \E device \in UsedArgs : Fits("command_buffer", MaxUsed, MaxUsedSlots) /\ cgpu_create_command_buffer(device, "none")
UseDestroyCommandBuffer == \E device, command_buffer \in UsedArgs : cgpu_destroy_command_buffer(device, command_buffer)
UseCreateFence == \E device \in UsedArgs : Fits("fence", MaxUsed, MaxUsedSlots) /\ cgpu_create_fence(device, "none")
UseDestroyFence == \E device, fence \in UsedArgs : cgpu_destroy_fence(device, fence)
UseDestroySampler == \E device, sampler \in UsedArgs : cgpu_destroy_sampler(device, sampler)
UpdateResources == \E device, pipeline \in UsedArgs, b \in UsedBindings : cgpu_update_resources(device, pipeline, b.buffers, b.images)
MapBuffer == \E device, buffer \in UsedArgs, failed \in BOOLEAN : cgpu_map_buffer(device, buffer, failed)
UnmapBuffer == \E device, buffer \in UsedArgs : cgpu_unmap_buffer(device, buffer)
MapImage == \E device, image \in UsedArgs, failed \in BOOLEAN : cgpu_map_image(device, image, failed)
UnmapImage == \E device, image \in UsedArgs : cgpu_unmap_image(device, image)
BeginCommandBuffer == \E command_buffer \in UsedArgs, failed \in BOOLEAN : cgpu_begin_command_buffer(command_buffer, failed)
EndCommandBuffer == \E command_buffer \in UsedArgs : cgpu_end_command_buffer(command_buffer)
CmdBindPipeline == \E command_buffer, pipeline \in UsedArgs : cgpu_cmd_bind_pipeline(command_buffer, pipeline)
CmdCopyBuffer == \E command_buffer, source_buffer, destination_buffer \in UsedArgs : cgpu_cmd_copy_buffer(command_buffer, source_buffer, destination_buffer)
CmdCopyBufferToImage == \E command_buffer, buffer, image \in UsedArgs : cgpu_cmd_copy_buffer_to_image(command_buffer, buffer, image)
CmdPushConstants == \E command_buffer, pipeline \in UsedArgs : cgpu_cmd_push_constants(command_buffer, pipeline)
CmdDispatch == \E command_buffer \in UsedArgs : cgpu_cmd_dispatch(command_buffer)
CmdPipelineBarrier == \E command_buffer \in UsedArgs, b \in UsedBarriers : cgpu_cmd_pipeline_barrier(command_buffer, b.buffers, b.images)
CmdResetTimestamps == \E command_buffer \in UsedArgs : cgpu_cmd_reset_timestamps(command_buffer)
CmdWriteTimestamp == \E command_buffer \in UsedArgs : cgpu_cmd_write_timestamp(command_buffer)
CmdCopyTimestamps == \E command_buffer, buffer \in UsedArgs, r \in TimestampRanges : cgpu_cmd_copy_timestamps(command_buffer, buffer, r.offset, r.count)
ResetFence == \E device, fence \in UsedArgs, failed \in BOOLEAN : cgpu_reset_fence(device, fence, failed)
WaitForFence == \E device, fence \in UsedArgs, failed \in BOOLEAN : cgpu_wait_for_fence(device, fence, failed)
SubmitCommandBuffer == \E device, command_buffer, fence \in UsedArgs, failed \in BOOLEAN : cgpu_submit_command_buffer(device, command_buffer, fence, failed)
FlushMappedMemory == \E device, buffer \in UsedArgs, failed \in BOOLEAN : cgpu_flush_mapped_memory(device, buffer, failed)
InvalidateMappedMemory == \E device, buffer \in UsedArgs, failed \in BOOLEAN : cgpu_invalidate_mapped_memory(device, buffer, failed)
GetPhysicalDeviceLimits == \E device \in UsedArgs : cgpu_get_physical_device_limits(device)

NextUse ==
  \/ UseCreateDevice \/ UseDestroyDevice \/ UseCreateShader \/ UseDestroyShader \/ UseCreateBuffer \/ UseDestroyBuffer
  \/ UseCreateImage \/ UseDestroyImage \/ UseCreatePipeline \/ UseDestroyPipeline \/ UseCreateCommandBuffer \/ UseDestroyCommandBuffer
  \/ UseCreateFence \/ UseDestroyFence \/ UseDestroySampler
  \/ UpdateResources \/ MapBuffer \/ UnmapBuffer \/ MapImage \/ UnmapImage \/ BeginCommandBuffer \/ EndCommandBuffer
  \/ CmdBindPipeline \/ CmdCopyBuffer \/ CmdCopyBufferToImage \/ CmdPushConstants \/ CmdDispatch \/ CmdPipelineBarrier
  \/ CmdResetTimestamps \/ CmdWriteTimestamp \/ CmdCopyTimestamps \/ ResetFence \/ WaitForFence \/ SubmitCommandBuffer
  \/ FlushMappedMemory \/ InvalidateMappedMemory \/ GetPhysicalDeviceLimits

SpecUse == Init /\ [][NextUse]_vars

(***************************************************************************)
(* SpecTrack: the operations that read or write the tracked image layouts, *)
(* called with handles of slots.  The pipeline slot starts with any image  *)
(* table.                                                                  *)
(***************************************************************************)
TrackedImages == 1..MaxTrackedImages

TrackCreateDevice == cgpu_create_device(1, 0, 1, "none")
TrackCreateShader == \E reflection \in {OneImage, TwoImages} : Fits("shader", MaxUsed, MaxTrackedSlots) /\ cgpu_create_shader(1, reflection, "none")
TrackCreateBuffer == Fits("buffer", MaxUsed, MaxTrackedSlots) /\ cgpu_create_buffer(1, "none")
TrackCreateImage == Fits("image", MaxTrackedImages, MaxTrackedSlots) /\ cgpu_create_image(1, "none")
TrackDestroyImage == \E image \in TrackedImages : cgpu_destroy_image(1, image)
TrackCreatePipeline == \E garbage \in GarbagePipelines : Fits("pipeline", MaxUsed, MaxTrackedSlots) /\ cgpu_create_pipeline(1, 1, garbage, "none")
TrackCreateCommandBuffer == Fits("command_buffer", MaxUsed, MaxTrackedSlots) /\ cgpu_create_command_buffer(1, "none")
TrackUpdateResources == \E images \in ImageTables : cgpu_update_resources(1, 1, <<>>, images)
TrackBindPipeline == cgpu_cmd_bind_pipeline(1, 1)
TrackCopyBufferToImage == \E image \in TrackedImages : cgpu_cmd_copy_buffer_to_image(1, 1, image)
TrackPipelineBarrier == \E image \in TrackedImages : \E more \in {<<>>, <<ImageBarrier(image, {"CGPU_MEMORY_ACCESS_FLAG_SHADER_READ"})>>} :
                          cgpu_cmd_pipeline_barrier(1, <<>>, <<ImageBarrier(image, {"CGPU_MEMORY_ACCESS_FLAG_TRANSFER_WRITE"})>> \o more)
TrackDispatch == cgpu_cmd_dispatch(1)

NextTrack ==
  \/ TrackCreateDevice \/ TrackCreateShader \/ TrackCreateBuffer \/ TrackCreateImage \/ TrackDestroyImage \/ TrackCreatePipeline
  \/ TrackCreateCommandBuffer \/ TrackUpdateResources \/ TrackBindPipeline \/ TrackCopyBufferToImage \/ TrackPipelineBarrier \/ TrackDispatch

SpecTrack == Init /\ [][NextTrack]_vars

(***************************************************************************)
(* SpecPool: pipelines are created for shaders of every reflection of up   *)
(* to MaxPoolResources resources, one shader and one pipeline at a time.   *)
(***************************************************************************)
PoolReflections ==
  {[i \in 1..Len(types) |-> Resource(i - 1, types[i], TRUE, FALSE)] :
     types \in UNION {[1..n -> TalliedTypes \cup {"UNIFORM_BUFFER"}] : n \in 0..MaxPoolResources}}

NextPool ==
  \/ cgpu_create_device(1, 0, 4, "none")
  \/ \E reflection \in PoolReflections : Live(store["shader"]) = {} /\ cgpu_create_shader(1, reflection, "none")
  \/ cgpu_destroy_shader(1, 1)
  \/ \E fail \in {"none", "descriptor_pool", "descriptor_set"} :
       Live(store["pipeline"]) = {} /\ cgpu_create_pipeline(1, 1, [shader |-> 0, image_resources |-> <<>>], fail)
  \/ cgpu_destroy_pipeline(1, 1)

SpecPool == Init /\ [][NextPool]_vars

(***************************************************************************)
(* SpecFence: one device, one command buffer and at most MaxFences live    *)
(* fences, used as Vulkan allows: a fence is submitted unsignaled and not  *)
(* pending, and is neither reset nor destroyed while a submission with it  *)
(* is pending.  The queue completes every pending submission (weak         *)
(* fairness).                                                              *)
(***************************************************************************)
NextFence ==
  \/ cgpu_create_device(1, 0, 4, "none")
  \/ Live(store["command_buffer"]) = {} /\ cgpu_create_command_buffer(1, "none")
  \/ \E fail \in {"none", "fence"} : Cardinality(Live(store["fence"])) < MaxFences /\ cgpu_create_fence(1, fail)
  \/ \E fence \in SlotArgs("fence") : ~ifence[fence].pending /\ cgpu_destroy_fence(1, fence)
  \/ \E fence \in SlotArgs("fence"), failed \in BOOLEAN : ~ifence[fence].pending /\ cgpu_reset_fence(1, fence, failed)
  \/ \E fence \in SlotArgs("fence"), failed \in BOOLEAN : cgpu_wait_for_fence(1, fence, failed)
  \/ \E fence \in SlotArgs("fence"), failed \in BOOLEAN :
       ~ifence[fence].signaled /\ ~ifence[fence].pending /\ cgpu_submit_command_buffer(1, 1, fence, failed)
  \/ \E fence \in SlotArgs("fence") : queue_complete(fence)

SpecFence == Init /\ [][NextFence]_vars /\ \A fence \in SlotArgs("fence") : WF_vars(queue_complete(fence))

(***************************************************************************)
(* SpecRace: one device, a shader with one sampled image, one pipeline     *)
(* whose image table names image 1, two command buffers with the pipeline  *)
(* bound, and two threads that each record one dispatch.                   *)
(***************************************************************************)
NextRace ==
  \/ cgpu_create_device(1, 0, 1, "none")
  \/ Live(store["shader"]) = {} /\ cgpu_create_shader(1, OneImage, "none")
  \/ Live(store["image"]) = {} /\ cgpu_create_image(1, "none")
  \/ Live(store["pipeline"]) = {} /\ cgpu_create_pipeline(1, 1, [shader |-> 0, image_resources |-> <<ImageBinding(0, 1)>>], "none")
  \/ \A t \in Threads : thread[t].pc = "idle" /\ cgpu_create_command_buffer(1, "none")
  \/ \E command_buffer \in SlotArgs("command_buffer") :
       /\ \A t \in Threads : thread[t].pc = "idle"
       /\ cgpu_cmd_bind_pipeline(command_buffer, 1)
  \/ \E t \in Threads : dispatch_enter(t, t)
  \/ \E t \in Threads : dispatch_read(t)
  \/ \E t \in Threads : dispatch_write(t)

SpecRace == Init /\ [][NextRace]_vars

(***************************************************************************)
(* SpecBind: one device, one image, the shaders OneImage (slot 1) and      *)
(* TwoImages (slot 2), pipelines over either whose image table names the   *)
(* image at bindings 0 and 1, and command buffers that bind and dispatch;  *)
(* shaders, pipelines and command buffers are destroyed and their slots    *)
(* handed out again.                                                       *)
(***************************************************************************)
NextBind ==
  \/ cgpu_create_device(1, 0, 1, "none")
  \/ Live(store["image"]) = {} /\ cgpu_create_image(1, "none")
  \/ cgpu_create_shader(1, IF resource_store_next_handle(store["shader"]) = 1 THEN OneImage ELSE TwoImages, "none")
  \/ \E shader \in SlotArgs("shader") : cgpu_destroy_shader(1, shader)
  \/ \E shader \in SlotArgs("shader") :
       cgpu_create_pipeline(1, shader, [shader |-> 0, image_resources |-> <<ImageBinding(0, 1), ImageBinding(1, 1)>>], "none")
  \/ \E pipeline \in SlotArgs("pipeline") : cgpu_destroy_pipeline(1, pipeline)
  \/ cgpu_create_command_buffer(1, "none")
  \/ \E command_buffer \in SlotArgs("command_buffer") : cgpu_destroy_command_buffer(1, command_buffer)
  \/ \E command_buffer \in SlotArgs("command_buffer"), pipeline \in SlotArgs("pipeline") : cgpu_cmd_bind_pipeline(command_buffer, pipeline)
  \/ \E command_buffer \in SlotArgs("command_buffer") : cgpu_cmd_dispatch(command_buffer)

SpecBind == Init /\ [][NextBind]_vars

NextStager ==
  \/ \E rebar, later, ndebug \in BOOLEAN, fail \in AllocateFailures : giInitialize(rebar, fail, later, ndebug)
  \/ \E ndebug \in BOOLEAN : giTerminate(ndebug)
  \/ \E size \in StageSizes, env \in StageOutcomes : giCreateGeomCache(size, env)
  \/ \E size \in ImageSizes, env \in StageOutcomes : StageToImage(size, env)
  \/ \E fail \in FlushFailures : Flush(fail)

SpecStager == Init /\ [][NextStager]_vars

NextStage ==
  \/ \E rebar, later, ndebug \in BOOLEAN, fail \in AllocateFailures : staging.pc = "idle" /\ giInitialize(rebar, fail, later, ndebug)
  \/ \E fail \in FlushFailures : staging.pc = "idle" /\ Flush(fail)
  \/ \E size \in StageSizes : stage_enter(size)
  \/ \E copy_ok \in BOOLEAN, fail \in FlushFailures : stage_step(copy_ok, fail)

\* a call of stage goes on: the thread that called it runs
SpecStage == Init /\ [][NextStage]_vars /\ WF_vars(\E copy_ok \in BOOLEAN, fail \in FlushFailures : stage_step(copy_ok, fail))

NextRender ==
  \/ giInvalidateFramebuffer
  \/ handleFileAction
  \/ \E resized \in BOOLEAN : giRender_enter(resized)
  \/ giRender_check
  \/ giRender_reset
  \/ giRender_clear
  \/ \E spp \in 0..1 : giRender_return(spp)

SpecRender == Init /\ [][NextRender]_vars

NextResize ==
  \/ \E width, height \in 0..MaxExtent : giCreateRenderBuffer(width, height)
  \/ \E fail \in {"none", "buffer", "stagingBuffer"} : _giResizeRenderBufferIfNeeded(fail)
  \/ giDestroyRenderBuffer

SpecResize == Init /\ [][NextResize]_vars

\* the clear values of a binding: -1 when it holds no GfVec4f, 1 a colour that is not the default
ClearValues == {-1, 1}

\* the inputs of _Execute, with one choice of those it does not read: the ones after the return it takes without a
\* camera, without a supported AOV or with another format, and giCreateShaderCache after a giCreateGeomCache that failed
ExecuteInputs ==
  {e \in BOOLEAN \X AovBindings \X BOOLEAN \X ClearValues \X BOOLEAN \X BOOLEAN \X BOOLEAN :
     /\ ~e[1] => (e[2] = <<>> /\ e[3])
     /\ (~e[1] \/ ~e[3] \/ _FilterAovBinding(e[2], 1) = 0) => (e[4] = -1 /\ e[5] /\ e[6] /\ e[7])
     /\ ~e[5] => e[6]}

NextPass ==
  \/ \E lastAovId \in AovIds : HdGatlingRenderPass(lastAovId)
  \/ HdGatlingRenderPass_destructor
  \/ MarkSceneDirty
  \/ SetRenderSetting
  \/ \E e \in ExecuteInputs : _Execute(e[1], e[2], e[3], e[4], e[5], e[6], e[7])

SpecPass == Init /\ [][NextPass]_vars

(***************************************************************************)
(* Properties.                                                             *)
(***************************************************************************)
IsCreateCall(c) == c[1] = "create"
IsDestroyCall(c) == c[1] = "destroy"

\* the native objects a call created, and those it destroyed, in order
CreatedBy(calls) == [i \in 1..Len(SelectSeq(calls, IsCreateCall)) |-> SelectSeq(calls, IsCreateCall)[i][2]]
DestroyedBy(calls) == [i \in 1..Len(SelectSeq(calls, IsDestroyCall)) |-> SelectSeq(calls, IsDestroyCall)[i][2]]

Reverse(q) == [i \in 1..Len(q) |-> q[Len(q) + 1 - i]]

\* the call allocated a handle
Allocated == IsCreateOp(last.op) /\ CreateHandle(last.kind) \in Range(last.calls)

\* C1: in every store the free list holds no handle twice and only handles that were handed out, so the live handles and the
\* free handles split the slots handed out; the handle an allocation returns was not live before the call, and after a
\* successful create the live handles are those from before and the new one
C1_LiveHandlesDistinct ==
  /\ \A kind \in Kinds :
       /\ \A i, j \in 1..Len(store[kind].free) : store[kind].free[i] = store[kind].free[j] => i = j
       /\ Range(store[kind].free) \subseteq 1..store[kind].hwm
  /\ Allocated => last.handle # CGPU_INVALID_HANDLE /\ last.handle \notin last.pre
  /\ Allocated /\ last.result = "CGPU_OK" => /\ Live(store[last.kind]) = last.pre \cup {last.handle}
                                             /\ Cardinality(Live(store[last.kind])) = Cardinality(last.pre) + 1

\* C1 witness: a buffer is created in a slot that was freed, while another buffer is live
C1_Witness == last.op = "cgpu_create_buffer" /\ last.result = "CGPU_OK" /\ last.pre # {} /\ last.handle < store["buffer"].hwm

\* C4: when cgpu_create_buffer fails at the native allocation, the handle it wrote to the out-parameter does not resolve
\* and the buffer store has the live handles it had before the call
C4_FailedBufferNotResolvable ==
  last.op = "cgpu_create_buffer" /\ last.phase = "buffer" =>
    /\ last.result = "CGPU_FAIL_UNABLE_TO_CREATE_BUFFER"
    /\ ~cgpu_resolve("buffer", last.handle)
    /\ Live(store["buffer"]) = last.pre

\* C4 witness: cgpu_create_buffer failed at the native allocation while another buffer was live
C4_Witness == last.op = "cgpu_create_buffer" /\ last.phase = "buffer" /\ last.pre # {} /\ last.handle # CGPU_INVALID_HANDLE

\* C5: after a create operation that allocated a handle and failed, the handle does not resolve
C5_FailedCreateFreesHandle == Allocated /\ last.result # "CGPU_OK" => ~cgpu_resolve(last.kind, last.handle)

\* C6: after a failed cgpu_create_pipeline, cgpu_create_image or cgpu_create_shader, every native object the call
\* created has been destroyed by it
C6_FailedCreateDestroysObjects ==
  last.op \in {"cgpu_create_pipeline", "cgpu_create_image", "cgpu_create_shader"} /\ last.result # "CGPU_OK" =>
    Range(CreatedBy(last.calls)) \subseteq Range(DestroyedBy(last.calls))

\* the native objects of a device created before the step named phase
DeviceObjectsBefore(phase) == SelectSeq(DeviceObjects, LAMBDA obj : \E i, j \in 1..Len(DeviceObjects) : DeviceObjects[i] = obj /\ DeviceObjects[j] = phase /\ i < j)

\* C7: when cgpu_create_device fails, the objects it created are those of the steps before the failing one, it destroyed
\* exactly those, in the reverse of the order of creation, and freed the handle; when it fails before the logical device
\* exists it makes no native destroy call
C7_DeviceRollback ==
  last.op = "cgpu_create_device" /\ last.result # "CGPU_OK" /\ last.phase # "resolve" =>
    /\ CreatedBy(last.calls) = DeviceObjectsBefore(last.phase)
    /\ DestroyedBy(last.calls) = Reverse(CreatedBy(last.calls))
    /\ FreeHandle("device") \in Range(last.calls)
    /\ ~cgpu_resolve("device", last.handle)
    /\ last.phase \in DeviceEarlyChecks \cup {"logical_device"} => last.calls = <<CreateHandle("device"), FreeHandle("device")>>

\* C7 witness: cgpu_create_device failed at the allocator, the last step, and destroyed four objects
C7_Witness == last.op = "cgpu_create_device" /\ last.phase = "allocator" /\ Len(DestroyedBy(last.calls)) = 4

\* C8: a successful cgpu_destroy_device destroys allocator, query pool, sampler, command pool and logical device in that
\* order, the reverse of the order of creation, then frees the handle; called with a live device it succeeds
C8_DestroyDeviceOrder ==
  last.op = "cgpu_destroy_device" =>
    /\ last.result = "CGPU_OK" =>
         /\ last.calls = <<Destroy("allocator"), Destroy("query_pool"), Destroy("sampler"), Destroy("command_pool"), Destroy("logical_device"), FreeHandle("device")>>
         /\ DestroyedBy(last.calls) = Reverse(DeviceObjects)
         /\ ~cgpu_resolve("device", last.handle)
    /\ last.args[1][2] \in last.pre => last.result = "CGPU_OK"

\* C8 witness: a live device was destroyed
C8_Witness == last.op = "cgpu_destroy_device" /\ last.result = "CGPU_OK" /\ last.handle \in last.pre

\* C9: the result of a failed construction phase of cgpu_create_device is the result of no other of its five phases, and the
\* same for the five phases of cgpu_create_pipeline
C9_PhaseCodesDistinct ==
  /\ last.op = "cgpu_create_device" /\ last.phase \in Range(DeviceObjects) =>
       \A other \in Range(DeviceObjects) \ {last.phase} : DeviceFail(other).result # last.result
  /\ last.op = "cgpu_create_pipeline" /\ last.phase \in PipelineFailPoints =>
       \A other \in PipelineFailPoints \ {last.phase} : PipelineFail(other).result # last.result

\* whether a handle argument <<kind, handle>> of the last call resolved when the call was made: a call changes no store
\* but the one of its own kind, whose live handles before the call are in pre
ResolvedBefore(arg) == IF arg[1] = last.kind THEN arg[2] \in last.pre ELSE cgpu_resolve(arg[1], arg[2])

\* the argument named a slot that had been handed out and freed, and not handed out again
FreedBefore(arg) == arg[2] \in 1..store[arg[1]].hwm /\ ~ResolvedBefore(arg)

\* the argument was 0 or beyond the high-water mark
NeverAllocated(arg) == arg[2] = CGPU_INVALID_HANDLE \/ arg[2] > store[arg[1]].hwm

\* the last call returned the result of a check the code makes before it resolves argument i: the range check of
\* cgpu_cmd_copy_timestamps, or the alignment check of a buffer binding that comes before argument i in cgpu_update_resources
CheckedBeforeResolve(i) ==
  \/ last.op = "cgpu_cmd_copy_timestamps" /\ last.result = "CGPU_FAIL_MAX_TIMESTAMP_QUERY_INDEX_REACHED"
  \/ /\ last.op = "cgpu_update_resources" /\ last.result = "CGPU_FAIL_BUFFER_OFFSET_NOT_ALIGNED"
     /\ \E j \in 1..(i - 1) : last.args[j][1] = "buffer" /\ ResolvedBefore(last.args[j])

\* C2 (as stated): a handle on the free list of its store does not resolve, and an operation called with a handle that
\* was destroyed and not handed out again returns CGPU_FAIL_INVALID_HANDLE
C2_DestroyedHandleInvalid ==
  /\ \A kind \in Kinds : \A h \in Range(store[kind].free) : ~cgpu_resolve(kind, h)
  /\ \A i \in 1..Len(last.args) : FreedBefore(last.args[i]) => last.result = "CGPU_FAIL_INVALID_HANDLE"

\* C2 (amended): a successful destroy leaves its handle on the free list, where it does not resolve; an operation called
\* with a handle that was destroyed and not handed out again returns CGPU_FAIL_INVALID_HANDLE, unless a check that the code
\* makes before resolving that handle fails first, and then it returns that check's result
C2_DestroyedHandleFails ==
  /\ \A kind \in Kinds : \A h \in Range(store[kind].free) : ~cgpu_resolve(kind, h)
  /\ IsDestroyOp(last.op) /\ last.result = "CGPU_OK" => last.handle \in last.pre /\ last.handle \in Range(store[last.kind].free)
  /\ \A i \in 1..Len(last.args) : FreedBefore(last.args[i]) => last.result = "CGPU_FAIL_INVALID_HANDLE" \/ CheckedBeforeResolve(i)

\* C2 witness: a buffer operation was called with a live device and a destroyed buffer, and returned CGPU_FAIL_INVALID_HANDLE
C2_Witness ==
  /\ last.op \in {"cgpu_map_buffer", "cgpu_unmap_buffer"} /\ last.result = "CGPU_FAIL_INVALID_HANDLE"
  /\ ResolvedBefore(last.args[1]) /\ FreedBefore(last.args[2])

\* C3 (as stated): handle 0 and handles beyond the high-water mark do not resolve, and an operation called with such a
\* handle returns CGPU_FAIL_INVALID_HANDLE
C3_NeverAllocatedInvalid ==
  /\ \A kind \in Kinds : \A h \in {CGPU_INVALID_HANDLE} \cup ((store[kind].hwm + 1)..(MaxSlots + 1)) : ~cgpu_resolve(kind, h)
  /\ \A i \in 1..Len(last.args) : NeverAllocated(last.args[i]) => last.result = "CGPU_FAIL_INVALID_HANDLE"

\* C3 (amended): handle 0 and handles beyond the high-water mark do not resolve; an operation called with such a handle
\* returns CGPU_FAIL_INVALID_HANDLE, unless a check that the code makes before resolving that handle fails first, and then
\* it returns that check's result; it never succeeds
C3_NeverAllocatedFails ==
  /\ \A kind \in Kinds : \A h \in {CGPU_INVALID_HANDLE} \cup ((store[kind].hwm + 1)..(MaxSlots + 1)) : ~cgpu_resolve(kind, h)
  /\ \A i \in 1..Len(last.args) : NeverAllocated(last.args[i]) =>
       /\ last.result = "CGPU_FAIL_INVALID_HANDLE" \/ CheckedBeforeResolve(i)
       /\ last.result # "CGPU_OK"

\* C3 witness: cgpu_submit_command_buffer was called with a live device, a live command buffer and fence 0, and returned
\* CGPU_FAIL_INVALID_HANDLE
C3_Witness ==
  /\ last.op = "cgpu_submit_command_buffer" /\ last.result = "CGPU_FAIL_INVALID_HANDLE"
  /\ ResolvedBefore(last.args[1]) /\ ResolvedBefore(last.args[2]) /\ last.args[3][2] = CGPU_INVALID_HANDLE

\* C10: after a successful cgpu_cmd_dispatch, for every resource the reflection of the bound pipeline's shader declares as
\* an image, every live image the caller bound at that binding by cgpu_update_resources has the layout the descriptor type
\* requires
C10_DispatchedImagesInLayout ==
  last.op = "cgpu_cmd_dispatch" /\ last.result = "CGPU_OK" =>
    LET pipeline == icommand_buffer[last.args[1][2]].pipeline
        reflection == ishader[ipipeline[pipeline].shader].reflection
    IN \A i \in 1..Len(reflection) : \A j \in 1..Len(bound[pipeline]) :
         /\ RequiredLayout(reflection[i].descriptor_type) # "NOT_AN_IMAGE"
         /\ bound[pipeline][j].binding = reflection[i].binding
         /\ cgpu_resolve("image", bound[pipeline][j].image)
         => iimage[bound[pipeline][j].image].layout = RequiredLayout(reflection[i].descriptor_type)

\* C13: after a successful cgpu_update_resources the image table of the pipeline slot holds the image bindings that were
\* passed, entries and count
C13_UpdateStoresImageTable ==
  last.op = "cgpu_update_resources" /\ last.result = "CGPU_OK" =>
    ipipeline[last.args[2][2]].image_resources = bound[last.args[2][2]]

RECURSIVE SumCounts(_)
SumCounts(sizes) == IF sizes = <<>> THEN 0 ELSE sizes[1].descriptorCount + SumCounts(Tail(sizes))

\* C15: the size table cgpu_create_pipeline hands to vkCreateDescriptorPool has one entry for each of the five descriptor
\* types that occurs in the reflection of the shader, none for a type that does not occur, each entry's count is the number
\* of resources of its type, and the counts add up to the number of resources
C15_PoolSizesMatchReflection ==
  last.op = "cgpu_create_pipeline" /\ (last.result = "CGPU_OK" \/ last.phase \in {"descriptor_pool", "descriptor_set"}) =>
    LET reflection == ishader[last.args[2][2]].reflection
        sizes == last.pool_sizes
        Occurrences(t) == Cardinality({i \in 1..Len(reflection) : reflection[i].descriptor_type = t})
        Entries(t) == {k \in 1..Len(sizes) : sizes[k].type = t}
    IN /\ \A k \in 1..Len(sizes) : sizes[k].type \in {"STORAGE_BUFFER", "STORAGE_IMAGE", "SAMPLED_IMAGE", "COMBINED_IMAGE_SAMPLER", "SAMPLER"}
       /\ \A t \in {"STORAGE_BUFFER", "STORAGE_IMAGE", "SAMPLED_IMAGE", "COMBINED_IMAGE_SAMPLER", "SAMPLER"} :
            /\ Cardinality(Entries(t)) = (IF Occurrences(t) > 0 THEN 1 ELSE 0)
            /\ \A k \in Entries(t) : sizes[k].descriptorCount = Occurrences(t)
       /\ SumCounts(sizes) = Len(reflection)

\* C15 witness: a pipeline was created for a shader of two storage buffers and one storage image, and the table is
\* {storage buffer: 2}, {storage image: 1}
C15_Witness ==
  /\ last.op = "cgpu_create_pipeline" /\ last.result = "CGPU_OK"
  /\ last.pool_sizes = <<[type |-> "STORAGE_BUFFER", descriptorCount |-> 2], [type |-> "STORAGE_IMAGE", descriptorCount |-> 1]>>
  /\ Len(ishader[last.args[2][2]].reflection) = 3

\* C20: the image a successful cgpu_create_image returns has tracked layout UNDEFINED and an empty tracked access mask
C20_NewImageUndefined ==
  last.op = "cgpu_create_image" /\ last.result = "CGPU_OK" => iimage[last.handle] = [layout |-> "UNDEFINED", access_mask |-> {}]

\* C20 witness: an image was created in the slot of a destroyed image that had been transitioned to another layout and
\* had a tracked access mask
C20_Witness ==
  /\ last.op = "cgpu_create_image" /\ last.result = "CGPU_OK"
  /\ last.was.layout \notin {"NONE", "UNDEFINED"} /\ last.was.access_mask # {}

\* C14: when every handle passed to cgpu_update_resources resolves, it returns CGPU_FAIL_BUFFER_OFFSET_NOT_ALIGNED exactly
\* when the offset of some buffer binding is not a multiple of the device's minStorageBufferOffsetAlignment, and then it
\* has made no descriptor write; otherwise it succeeds and the descriptor writes carry the offsets that were passed
C14_UnalignedOffsetRejected ==
  last.op = "cgpu_update_resources" /\ (\A i \in 1..Len(last.args) : ResolvedBefore(last.args[i])) =>
    LET alignment == idevice[last.args[1][2]].minStorageBufferOffsetAlignment
        offsets == [i \in 1..Len(SelectSeq(last.args, LAMBDA a : a[1] = "buffer")) |-> SelectSeq(last.args, LAMBDA a : a[1] = "buffer")[i][3]]
        unaligned == \E i \in 1..Len(offsets) : \A n \in 0..offsets[i] : n * alignment # offsets[i]
    IN /\ last.result = "CGPU_FAIL_BUFFER_OFFSET_NOT_ALIGNED" <=> unaligned
       /\ unaligned => last.calls = <<>>
       /\ ~unaligned => last.result = "CGPU_OK" /\ last.calls = <<<<"vkUpdateDescriptorSets", "descriptor_set", offsets>>>>

\* C14 witness: with a device of alignment 4, the second of two bindings of a live buffer has offset 3, one less than the
\* alignment, and the call fails
C14_Witness ==
  /\ last.op = "cgpu_update_resources" /\ last.result = "CGPU_FAIL_BUFFER_OFFSET_NOT_ALIGNED"
  /\ idevice[last.args[1][2]].minStorageBufferOffsetAlignment = 4
  /\ Len(last.args) = 4 /\ last.args[3] = <<"buffer", 1, 4>> /\ last.args[4] = <<"buffer", 1, 3>>

\* the image arguments <<"image", handle, flags>> of the last call, in order
ImageArgs(r) == SelectSeq(r.args, LAMBDA a : a[1] = "image")

\* C19: a successful cgpu_cmd_pipeline_barrier records one barrier for each image barrier passed; its old and new layout are
\* the image's tracked layout, its source access mask is the tracked access mask at that moment (the one an earlier barrier
\* of the call for the same image left, else the one before the call) and its destination access mask the translated
\* flags; the call changes no tracked layout and sets the tracked access mask of each image named to the translated flags
\* of its last barrier, and of no other image
C19_BarrierKeepsLayout ==
  [][last'.op = "cgpu_cmd_pipeline_barrier" /\ last'.result = "CGPU_OK" =>
       LET passed == ImageArgs(last')
           recorded == last'.barriers
           Earlier(i) == {j \in 1..(i - 1) : passed[j][2] = passed[i][2]}
           Latest(S) == CHOOSE j \in S : \A k \in S : k <= j
           Of(m) == {i \in 1..Len(passed) : passed[i][2] = m}
       IN /\ Len(recorded) = Len(passed)
          /\ \A i \in 1..Len(passed) :
               /\ recorded[i].image = passed[i][2]
               /\ recorded[i].oldLayout = iimage[passed[i][2]].layout
               /\ recorded[i].newLayout = iimage[passed[i][2]].layout
               /\ recorded[i].srcAccessMask = (IF Earlier(i) = {} THEN iimage[passed[i][2]].access_mask
                                               ELSE cgpu_translate_access_flags(passed[Latest(Earlier(i))][3]))
               /\ recorded[i].dstAccessMask = cgpu_translate_access_flags(passed[i][3])
          /\ \A m \in DOMAIN iimage :
               /\ iimage'[m].layout = iimage[m].layout
               /\ iimage'[m].access_mask = (IF Of(m) = {} THEN iimage[m].access_mask ELSE cgpu_translate_access_flags(passed[Latest(Of(m))][3]))
    ]_vars

\* C19 witness: two barriers for one image in a layout other than UNDEFINED were recorded by one call; the second took the
\* access mask the first left as its source, and the image has the access mask of the second
C19_Witness ==
  /\ last.op = "cgpu_cmd_pipeline_barrier" /\ last.result = "CGPU_OK" /\ Len(last.barriers) = 2
  /\ last.barriers[1].image = last.barriers[2].image
  /\ last.barriers[1].oldLayout # "UNDEFINED" /\ last.barriers[2].newLayout = last.barriers[1].oldLayout
  /\ last.barriers[1].srcAccessMask # last.barriers[1].dstAccessMask
  /\ last.barriers[2].srcAccessMask = last.barriers[1].dstAccessMask
  /\ iimage[last.barriers[2].image].access_mask = last.barriers[2].dstAccessMask
  /\ iimage[last.barriers[2].image].layout = last.barriers[2].oldLayout

\* the pipeline bound to the command buffer of the call r, and the reflection of its shader
PipelineOf(r) == icommand_buffer[r.args[1][2]].pipeline
ReflectionOf(r) == ishader[ipipeline[PipelineOf(r)].shader].reflection

\* C11: of two successful cgpu_cmd_dispatch calls on one command buffer with no call in between, the second records no
\* image barrier and no vkCmdPipelineBarrier, and leaves the tracked layout and access mask of every image as they are
C11_SecondDispatchNoBarrier ==
  [][/\ last.op = "cgpu_cmd_dispatch" /\ last.result = "CGPU_OK"
     /\ last'.op = "cgpu_cmd_dispatch" /\ last'.result = "CGPU_OK" /\ last'.args = last.args
     => /\ last'.barriers = <<>>
        /\ last'.calls = <<<<"call", "vkCmdDispatch">>>>
        /\ iimage' = iimage
    ]_vars

\* the barriers a dispatch owes when table is the image bindings of the pipeline and images the image slots before the call:
\* resource i of the reflection needs one when it is an image and the layout of its image, as the image resources before
\* i left it, is not the layout it requires
ExpectedBarriers(reflection, table, images) ==
  LET IsImage(i) == RequiredLayout(reflection[i].descriptor_type) # "NOT_AN_IMAGE"
      ImageOf(i) == table[FindImageResource(table, reflection[i].binding)].image
      Latest(S) == CHOOSE j \in S : \A k \in S : k <= j
      Before(i) == {k \in 1..(i - 1) : IsImage(k) /\ ImageOf(k) = ImageOf(i)}
      LayoutBefore(i) == IF Before(i) = {} THEN images[ImageOf(i)].layout ELSE RequiredLayout(reflection[Latest(Before(i))].descriptor_type)
      Needs(i) == IsImage(i) /\ LayoutBefore(i) # RequiredLayout(reflection[i].descriptor_type)
      Barred(i) == {k \in 1..(i - 1) : Needs(k) /\ ImageOf(k) = ImageOf(i)}
      AccessBefore(i) == IF Barred(i) = {} THEN images[ImageOf(i)].access_mask ELSE ShaderAccessMask(reflection[Latest(Barred(i))])
      needed == SelectSeq([i \in 1..Len(reflection) |-> i], Needs)
  IN [n \in 1..Len(needed) |->
        [image |-> ImageOf(needed[n]), srcAccessMask |-> AccessBefore(needed[n]), dstAccessMask |-> ShaderAccessMask(reflection[needed[n]]),
         oldLayout |-> LayoutBefore(needed[n]), newLayout |-> RequiredLayout(reflection[needed[n]].descriptor_type)]]

\* every image resource of the reflection has a live image in the table
AllBound(reflection, table) ==
  \A i \in 1..Len(reflection) : RequiredLayout(reflection[i].descriptor_type) # "NOT_AN_IMAGE" =>
    /\ FindImageResource(table, reflection[i].binding) # 0
    /\ cgpu_resolve("image", table[FindImageResource(table, reflection[i].binding)].image)

\* C12: a successful cgpu_cmd_dispatch whose pipeline has a live image bound by cgpu_update_resources at every image
\* binding of the reflection records exactly the barriers owed for the images bound, one for each image resource whose
\* image is not in the required layout when its turn comes, all in one vkCmdPipelineBarrier before vkCmdDispatch, and no
\* vkCmdPipelineBarrier when there is none
C12_OneBarrierPerTransition ==
  [][last'.op = "cgpu_cmd_dispatch" /\ last'.result = "CGPU_OK" /\ AllBound(ReflectionOf(last'), bound[PipelineOf(last')]) =>
       LET expected == ExpectedBarriers(ReflectionOf(last'), bound[PipelineOf(last')], iimage)
       IN /\ last'.barriers = expected
          /\ last'.calls = (IF expected = <<>> THEN <<>> ELSE <<<<"call", "vkCmdPipelineBarrier">>>>) \o <<<<"call", "vkCmdDispatch">>>>
    ]_vars

\* C18: a cgpu_cmd_dispatch that does not return CGPU_OK changes the tracked layout and access mask of no image and records
\* neither a barrier nor a dispatch
C18_FailedDispatchChangesNothing ==
  [][last'.op = "cgpu_cmd_dispatch" /\ last'.result # "CGPU_OK" =>
       /\ iimage' = iimage
       /\ last'.calls = <<>> /\ last'.barriers = <<>>
    ]_vars

(***************************************************************************)
(* Live handles over a whole run.                                          *)
(***************************************************************************)
\* C17: a successful create adds exactly the handle it returns to the live handles of exactly its own store, a
\* successful destroy removes exactly the handle it was given, and no other call changes the live handles of
\* any store; so once every successfully created resource has been destroyed once, no store has a live handle
C17_LiveHandlesBalanced ==
  [][\A kind \in Kinds :
       Live(store'[kind]) =
         IF last'.kind = kind /\ last'.result = "CGPU_OK" /\ IsCreateOp(last'.op)
           THEN Live(store[kind]) \cup {last'.handle}
         ELSE IF last'.kind = kind /\ last'.result = "CGPU_OK" /\ IsDestroyOp(last'.op)
           THEN Live(store[kind]) \ {last'.handle}
         ELSE Live(store[kind])
    ]_vars

(***************************************************************************)
(* Fences.                                                                 *)
(***************************************************************************)
\* the fence a call on a fence names: its last argument
FenceArg(r) == r.args[Len(r.args)][2]

\* C16, as stated: a cgpu_wait_for_fence call on a live fence returns only when the fence is signaled (so after a
\* reset with no submission it never returns)
C16_WaitReturnsOnlySignaled ==
  last.op = "cgpu_wait_for_fence" /\ last.result # "CGPU_FAIL_INVALID_HANDLE" => ifence[FenceArg(last)].signaled

\* C16, amended: a fence is signaled by a successful cgpu_create_fence and stays signaled until a successful
\* cgpu_reset_fence (or its destruction); it is unsignaled from the reset until the queue completes a submission
\* made with it; cgpu_wait_for_fence returns CGPU_OK only when the fence is signaled, and can return CGPU_OK
\* whenever it is; and a fence with a pending submission is eventually signaled
C16_FenceSignaledUntilReset ==
  /\ [][\A fence \in SlotArgs("fence") :
          LET on(op) == /\ last'.op = op /\ last'.result = "CGPU_OK"
                        /\ fence = (IF op = "cgpu_create_fence" THEN last'.handle ELSE FenceArg(last'))
          IN /\ on("cgpu_create_fence") => ifence'[fence].signaled
             /\ on("cgpu_reset_fence") => ~ifence'[fence].signaled
             /\ ifence[fence].signaled /\ ~ifence'[fence].signaled => on("cgpu_reset_fence") \/ on("cgpu_destroy_fence")
             /\ ~ifence[fence].signaled /\ ifence'[fence].signaled =>
                  on("cgpu_create_fence") \/ (on("queue_complete") /\ ifence[fence].pending)
             /\ on("cgpu_wait_for_fence") => ifence[fence].signaled
       ]_vars
  /\ [](\A fence \in SlotArgs("fence") :
          cgpu_resolve("device", 1) /\ cgpu_resolve("fence", fence) /\ ifence[fence].signaled => ENABLED cgpu_wait_for_fence(1, fence, FALSE))
  /\ \A fence \in SlotArgs("fence") :
       (cgpu_resolve("fence", fence) /\ ifence[fence].pending) ~> (cgpu_resolve("fence", fence) /\ ifence[fence].signaled)

\* a wait returned CGPU_OK on a fence that was reset, submitted and signaled by the queue
C16_Witness ==
  /\ last.op = "cgpu_wait_for_fence" /\ last.result = "CGPU_OK"
  /\ ifence[FenceArg(last)].signaled /\ ifence[FenceArg(last)].by = "queue"

(***************************************************************************)
(* Device selection.                                                       *)
(***************************************************************************)
\* C21: cgpu_create_device returns CGPU_FAIL_MAX_PHYSICAL_DEVICES_REACHED exactly when the enumerated count exceeds
\* MAX_PHYSICAL_DEVICES, whatever the index, and CGPU_FAIL_NO_DEVICE_AT_INDEX exactly when the count is within the
\* cap and is zero or not above the index; in both cases the handle allocated is freed and does not resolve, and
\* no native object is created
C21_DeviceCountAndIndexChecked ==
  last.op = "cgpu_create_device" /\ last.phase # "resolve" =>
    LET count == last.input[1]
        index == last.input[2]
        over == count > MAX_PHYSICAL_DEVICES
        none == ~over /\ (count = 0 \/ index >= count)
    IN /\ last.result = "CGPU_FAIL_MAX_PHYSICAL_DEVICES_REACHED" <=> over
       /\ last.result = "CGPU_FAIL_NO_DEVICE_AT_INDEX" <=> none
       /\ over \/ none => /\ last.calls = <<CreateHandle("device"), FreeHandle("device")>>
                           /\ ~cgpu_resolve("device", last.handle)
                           /\ Live(store["device"]) = last.pre

\* a count above the cap with an index that is out of range as well was rejected for the count
C21_Witness ==
  /\ last.op = "cgpu_create_device" /\ last.input = <<MAX_PHYSICAL_DEVICES + 1, MAX_PHYSICAL_DEVICES + 1>>
  /\ last.result = "CGPU_FAIL_MAX_PHYSICAL_DEVICES_REACHED" /\ ~cgpu_resolve("device", last.handle)

(***************************************************************************)
(* Two recording threads.                                                  *)
(***************************************************************************)
Recorded(t) == thread[t].pc = "done" /\ thread[t].result = "CGPU_OK"

\* C22: when two threads have each recorded a dispatch on their own command buffer that consumes the same image,
\* whose tracked layout differed from the required one, at least one of them recorded a barrier; if the two
\* dispatches did not overlap, exactly one did; and a thread records a barrier from a layout only if the image was
\* tracked in that layout when the thread read it
C22_OneBarrierWhenAlone ==
  (\A t \in Threads : Recorded(t) /\ ThreadTable(t) = <<ImageBinding(0, 1)>> /\ ThreadReflection(t) = OneImage) =>
    LET emitters == {t \in Threads : thread[t].barriers # <<>>}
    IN /\ emitters # {}
       /\ (\A t \in Threads : thread[t].alone) => Cardinality(emitters) = 1
       /\ \A t \in emitters : thread[t].barriers = <<[image |-> 1, srcAccessMask |-> thread[t].barriers[1].srcAccessMask,
                                                        dstAccessMask |-> {"VK_ACCESS_SHADER_READ_BIT"},
                                                        oldLayout |-> "UNDEFINED", newLayout |-> "SHADER_READ_ONLY_OPTIMAL"]>>

\* both threads read the layout UNDEFINED and both recorded the transition from it
C22_Witness ==
  /\ \A t \in Threads : Recorded(t) /\ Len(thread[t].barriers) = 1 /\ thread[t].barriers[1].oldLayout = "UNDEFINED"
  /\ thread[1].command_buffer # thread[2].command_buffer
  /\ thread[1].barriers[1].image = thread[2].barriers[1].image

(***************************************************************************)
(* Stale handles.                                                          *)
(***************************************************************************)
\* C23: when a successful create hands out a handle whose slot was freed before, the old handle value resolves again
\* and names the new resource (a new image's slot: layout UNDEFINED, no access mask, whatever the destroyed image
\* was tracked as); a cgpu_cmd_pipeline_barrier or cgpu_destroy_image called next with that value does not return
\* CGPU_FAIL_INVALID_HANDLE but acts on the new image
C23_StaleHandleAliases ==
  /\ [](last.reused /\ last.result = "CGPU_OK" =>
          /\ cgpu_resolve(last.kind, last.handle)
          /\ last.kind = "image" => iimage[last.handle] = [layout |-> "UNDEFINED", access_mask |-> {}])
  /\ [][last.reused /\ last.result = "CGPU_OK" /\ last.kind = "image" =>
          /\ (/\ last'.op = "cgpu_cmd_pipeline_barrier" /\ ResolveCommandBuffer(1)
              /\ \A i \in 1..Len(last'.args) : last'.args[i][1] = "image" => last'.args[i][2] = last.handle)
             => /\ last'.result = "CGPU_OK"
                /\ last'.barriers[1] = [image |-> last.handle, srcAccessMask |-> {}, dstAccessMask |-> last'.barriers[1].dstAccessMask,
                                         oldLayout |-> "UNDEFINED", newLayout |-> "UNDEFINED"]
                /\ iimage'[last.handle].access_mask # {}
          /\ (last'.op = "cgpu_destroy_image" /\ last'.args = <<<<"device", 1>>, <<"image", last.handle>>>>)
             => last'.result = "CGPU_OK" /\ ~resource_store_get(store'["image"], last.handle)
       ]_vars

\* the handle of a destroyed image that was tracked as GENERAL resolves again, to the slot of a new image
C23_Witness ==
  /\ last.op = "cgpu_create_image" /\ last.result = "CGPU_OK" /\ last.reused
  /\ last.was.layout = "GENERAL" /\ cgpu_resolve("image", last.handle) /\ iimage[last.handle].layout = "UNDEFINED"

(***************************************************************************)
(* Growth of the stores.                                                   *)
(***************************************************************************)
\* C24: a create that allocates while the free list of its store is not empty is handed a slot of the free list and
\* leaves the high-water mark alone; the mark is extended only by one, only when the free list is empty, and then every
\* slot up to the mark is live, so the mark never exceeds the largest number of handles that were live at once
C24_GrowsOnlyWhenNoFreeSlot ==
  /\ [][\A kind \in Kinds :
          /\ store'[kind].hwm >= store[kind].hwm
          /\ store'[kind].hwm > store[kind].hwm =>
               /\ store[kind].free = <<>> /\ store'[kind].hwm = store[kind].hwm + 1
               /\ Cardinality(Live(store[kind])) = store[kind].hwm
               /\ IsCreateOp(last'.op) /\ last'.kind = kind /\ last'.handle = store'[kind].hwm
          /\ (IsCreateOp(last'.op) /\ last'.kind = kind /\ last'.handle # 0 /\ store[kind].free # <<>>) =>
               /\ last'.handle = store[kind].free[Len(store[kind].free)]
               /\ store'[kind].hwm = store[kind].hwm
       ]_vars
  /\ [](\A kind \in Kinds : Cardinality(Live(store[kind])) + Len(store[kind].free) = store[kind].hwm)

\* a store that grew to two slots handed out a freed slot again and did not grow
C24_Witness ==
  /\ IsCreateOp(last.op) /\ last.reused /\ last.kind # "device"
  /\ store[last.kind].hwm = 2 /\ Cardinality(last.pre) = 1 /\ Cardinality(Live(store[last.kind])) = 2

(***************************************************************************)
(* The pipeline cached on a command buffer.                                *)
(***************************************************************************)
\* the command buffer the call r was given
CommandBufferOf(r) == r.args[1][2]

\* C25: a command buffer slot holds no pipeline after cgpu_create_command_buffer; a successful cgpu_cmd_bind_pipeline
\* stores the pipeline it binds in the slot of its command buffer and no other call changes a slot's pipeline, so the
\* slot holds the pipeline bound last on that command buffer; cgpu_cmd_dispatch records the barriers owed by the
\* reflection and image table of that pipeline (when the table names a live image for each image resource); and when the slot holds no pipeline, or the pipeline or its shader
\* does not resolve, it returns CGPU_FAIL_INVALID_HANDLE, records nothing and changes no image slot
C25_DispatchUsesBoundPipeline ==
  /\ [](last.op = "cgpu_create_command_buffer" /\ last.handle # 0 /\ last.phase # "resolve" =>
          icommand_buffer[last.handle].pipeline = CGPU_INVALID_HANDLE)
  /\ [][\A command_buffer \in SlotArgs("command_buffer") :
          icommand_buffer'[command_buffer].pipeline =
            IF last'.op = "cgpu_cmd_bind_pipeline" /\ last'.result = "CGPU_OK" /\ CommandBufferOf(last') = command_buffer
              THEN last'.args[2][2]
            ELSE IF last'.op = "cgpu_create_command_buffer" /\ last'.handle = command_buffer /\ last'.phase # "resolve"
              THEN CGPU_INVALID_HANDLE
            ELSE icommand_buffer[command_buffer].pipeline
       ]_vars
  /\ [][last'.op = "cgpu_cmd_dispatch" /\ ResolveCommandBuffer(CommandBufferOf(last')) =>
          LET pipeline == icommand_buffer[CommandBufferOf(last')].pipeline
          IN IF /\ pipeline # CGPU_INVALID_HANDLE /\ cgpu_resolve("pipeline", pipeline)
                /\ cgpu_resolve("shader", ipipeline[pipeline].shader)
             THEN AllBound(ishader[ipipeline[pipeline].shader].reflection, ipipeline[pipeline].image_resources) =>
                    /\ last'.result = "CGPU_OK"
                    /\ last'.barriers = ExpectedBarriers(ishader[ipipeline[pipeline].shader].reflection, ipipeline[pipeline].image_resources, iimage)
             ELSE /\ last'.result = "CGPU_FAIL_INVALID_HANDLE"
                  /\ last'.calls = <<>> /\ last'.barriers = <<>> /\ iimage' = iimage
       ]_vars

\* a dispatch on a command buffer that had no pipeline bound returned CGPU_FAIL_INVALID_HANDLE while another command
\* buffer has a live pipeline bound
C25_Witness ==
  /\ last.op = "cgpu_cmd_dispatch" /\ last.result = "CGPU_FAIL_INVALID_HANDLE"
  /\ ResolveCommandBuffer(CommandBufferOf(last)) /\ icommand_buffer[CommandBufferOf(last)].pipeline = CGPU_INVALID_HANDLE
  /\ \E other \in Live(store["command_buffer"]) \ {CommandBufferOf(last)} : cgpu_resolve("pipeline", icommand_buffer[other].pipeline)

(***************************************************************************)
(* Layout changes and barriers.                                            *)
(***************************************************************************)
\* C28: whenever a call on a command buffer changes the tracked layout of a live image, the call succeeded and recorded
\* image barriers for that image that lead from the layout tracked before the call to the layout tracked after it
C28_LayoutChangeHasBarrier ==
  [][\A image \in SlotArgs("image") :
       (/\ cgpu_resolve("image", image) /\ last'.kind = "command_buffer"
        /\ iimage'[image].layout # iimage[image].layout) =>
         /\ last'.result = "CGPU_OK"
         /\ \E n \in 1..Len(last'.barriers) : last'.barriers[n].image = image /\ last'.barriers[n].oldLayout = iimage[image].layout
         /\ \E n \in 1..Len(last'.barriers) : last'.barriers[n].image = image /\ last'.barriers[n].newLayout = iimage'[image].layout
    ]_vars


\* C29: a cgpu_cmd_pipeline_barrier that returns the invalid-handle error has changed no tracked access mask and has
\* recorded no barrier, wherever the entry that does not resolve stands in its lists
C29_FailedBarrierChangesNothing ==
  [][(last'.op = "cgpu_cmd_pipeline_barrier" /\ last'.result = "CGPU_FAIL_INVALID_HANDLE") =>
       /\ iimage' = iimage
       /\ last'.calls = <<>> /\ last'.barriers = <<>>
    ]_vars


\* the queries offset .. offset + count - 1 all exist in a pool of MAX_TIMESTAMP_QUERIES queries
InsidePool(offset, count) == offset.hi = 0 /\ count.hi = 0 /\ offset.lo + count.lo <= MAX_TIMESTAMP_QUERIES

\* C30: cgpu_cmd_copy_timestamps records the copy of the query results only for a range that lies inside the pool, and
\* for every other offset and count, a wrapping sum included, it returns the query-index error and records nothing
C30_CopyOnlyInsidePool ==
  last.op = "cgpu_cmd_copy_timestamps" =>
    /\ last.calls # <<>> => InsidePool(last.input[1], last.input[2])
    /\ ~InsidePool(last.input[1], last.input[2]) =>
         last.result = "CGPU_FAIL_MAX_TIMESTAMP_QUERY_INDEX_REACHED" /\ last.calls = <<>>


\* the image copy commands and the memcpys among the calls of a staging call
ImageCopies(calls) == {n \in 1..Len(calls) : calls[n][1] = "cgpuCmdCopyBufferToImage"}

Memcpys(calls) == {n \in 1..Len(calls) : calls[n][1] = "memcpy"}

\* the call starts with a flush: the first cgpu call of flush is the first call made
FlushedFirst(calls) == calls # <<>> /\ calls[1][1] = "call" /\ calls[1][2] = "cgpuFlushMappedMemory"

\* the bytes past BUFFER_SIZE are refused: nothing is staged and nothing is recorded
RefusedWhole(r) == r.result = "false" /\ r.calls = <<>> /\ stager.m_stagedBytes = r.input[2]

\* C26 as stated: for every size up to BUFFER_SIZE and every count of bytes staged before, stageToImage places the size
\* bytes in one piece and records exactly one image copy command for them, after a flush when they did not fit;
\* past BUFFER_SIZE it returns false and stages nothing
C26_ExactlyOneImageCopy ==
  last.op = "stageToImage" =>
    LET size == last.input[1]
        prior == last.input[2]
    IN IF size > BUFFER_SIZE THEN RefusedWhole(last)
       ELSE /\ Cardinality(ImageCopies(last.calls)) = 1 /\ Cardinality(Memcpys(last.calls)) = 1
            /\ \A n \in Memcpys(last.calls) : last.calls[n][3] = 0 /\ last.calls[n][4] = size /\ last.calls[n][2] + size <= BUFFER_SIZE
            /\ BUFFER_SIZE - prior < size => FlushedFirst(last.calls)

\* C26: stageToImage never stages an image in parts.  Up to BUFFER_SIZE it makes at most one memcpy, of all size bytes
\* to one piece of the staging buffer, and records at most one image copy command, which reads from where that memcpy
\* wrote; when the bytes did not fit it flushes first and stages at offset 0 only after the flush succeeded; it records
\* exactly one copy when it returns true for a size above 0, and none for size 0.  Past BUFFER_SIZE it returns false
\* and stages nothing
C26_ImageNeverStagedInParts ==
  last.op = "stageToImage" =>
    LET size == last.input[1]
        prior == last.input[2]
        calls == last.calls
    IN IF size > BUFFER_SIZE THEN RefusedWhole(last)
       ELSE /\ Cardinality(ImageCopies(calls)) <= 1 /\ Cardinality(Memcpys(calls)) <= 1
            /\ \A n \in Memcpys(calls) : calls[n][3] = 0 /\ calls[n][4] = size /\ calls[n][2] + size <= BUFFER_SIZE
            /\ \A n \in ImageCopies(calls) : (n - 1) \in Memcpys(calls) /\ calls[n][3] = calls[n - 1][2]
            /\ BUFFER_SIZE - prior < size =>
                 /\ FlushedFirst(calls)
                 /\ \A n \in Memcpys(calls) : calls[n][2] = 0 /\ Call("cgpuBeginCommandBuffer") \in {calls[m] : m \in 1..(n - 1)}
            /\ (last.result = "true" /\ size > 0) => Cardinality(ImageCopies(calls)) = 1
            /\ size = 0 => ImageCopies(calls) = {}

\* an image that did not fit behind the bytes staged before it was staged whole after a flush
C26_Witness ==
  /\ last.op = "stageToImage" /\ last.result = "true"
  /\ last.input[1] <= BUFFER_SIZE /\ BUFFER_SIZE - last.input[2] < last.input[1]
  /\ Cardinality(ImageCopies(last.calls)) = 1
  /\ stager.m_stagedBytes = last.input[1]

\* C27: no call of gi evaluates the assertion m_stagedBytes == 0 of GiStager::free or of the destructor of GiStager to
\* false, after a failed allocate and at the teardown in giTerminate alike
C27_StagedBytesAssertionsHold ==
  \A n \in 1..Len(last.calls) : last.calls[n][1] = "assert" => last.calls[n][2] = "holds"


\* the number of times a slot index stands on a free list
TimesFree(s, h) == Cardinality({i \in 1..Len(s.free) : s.free[i] = h})

\* the handle a destroy call was asked to destroy: its last argument
Destroyed(r) == r.args[Len(r.args)][2]

\* C31: no slot index is on a free list twice; a destroy of a handle that is on the free list returns the invalid-handle
\* error and leaves every store alone, and a destroy that succeeds frees a handle that resolved; a create that fails
\* frees no handle that was live before it and leaves its own handle free at most once
C31_NoSlotFreedTwice ==
  [][/\ \A kind \in Kinds : \A h \in 1..store'[kind].hwm : TimesFree(store'[kind], h) <= 1
     /\ (IsDestroyOp(last'.op) /\ Destroyed(last') \in Range(store[last'.kind].free)) =>
          last'.result = "CGPU_FAIL_INVALID_HANDLE" /\ store' = store
     /\ (IsDestroyOp(last'.op) /\ last'.result = "CGPU_OK") =>
          /\ cgpu_resolve(last'.kind, Destroyed(last'))
          /\ store'[last'.kind].free = Append(store[last'.kind].free, Destroyed(last'))
     /\ (IsCreateOp(last'.op) /\ last'.result # "CGPU_OK") =>
          /\ Live(store[last'.kind]) \subseteq Live(store'[last'.kind])
          /\ TimesFree(store'[last'.kind], last'.handle) <= 1
    ]_vars

\* a buffer was destroyed a second time with no create in between, through a live device, and the call was refused
C31_Witness ==
  /\ last.op = "cgpu_destroy_buffer" /\ last.result = "CGPU_FAIL_INVALID_HANDLE"
  /\ cgpu_resolve("device", last.args[1][2])
  /\ store["buffer"].free # <<>> /\ Destroyed(last) = store["buffer"].free[Len(store["buffer"].free)]


\* the bytes of the first n chunks
RECURSIVE ChunkBytes(_, _)
ChunkBytes(chunks, n) == IF n = 0 THEN 0 ELSE ChunkBytes(chunks, n - 1) + chunks[n].count

\* the chunks follow one another in the source from byte 0, and each starts in the staging buffer where m_stagedBytes
\* stood before it: at the bytes staged before the call, behind the chunk before it, or at 0 after the flush of a full buffer
ChunksInOrder(chunks, prior) ==
  \A k \in 1..Len(chunks) :
    /\ chunks[k].src = ChunkBytes(chunks, k - 1)
    /\ chunks[k].offset = IF k = 1 THEN prior
                          ELSE IF chunks[k - 1].offset + chunks[k - 1].count = BUFFER_SIZE THEN 0
                          ELSE chunks[k - 1].offset + chunks[k - 1].count

\* a pass that stays in the loop has staged bytes, or has flushed a staging buffer that was full before the call
StageProgress ==
  (staging.pc = "loop" /\ staging'.pc = "loop") =>
    \/ staging'.bytesToStage < staging.bytesToStage
    \/ staging'.bytesToStage = staging.bytesToStage /\ stager.m_stagedBytes = BUFFER_SIZE /\ stager'.m_stagedBytes = 0

\* C32: a call of stage ends, whatever its size, the bytes staged before it and the outcomes of its copies and flushes:
\* every pass that does not return makes progress, and a call in progress leads to a call that has returned; the chunks
\* recorded are in order at every moment, and when the call returns true they cover the source bytes 0 .. size - 1
C32_StageTerminatesAndPartitions ==
  /\ [][StageProgress]_vars
  /\ [](ChunksInOrder(staging.chunks, staging.prior))
  /\ [](staging.pc = "loop" \/ staging.result = "true" => ChunkBytes(staging.chunks, Len(staging.chunks)) = staging.size - staging.bytesToStage)
  /\ [](staging.result = "true" => staging.bytesToStage = 0)
  /\ (staging.pc = "loop") ~> (staging.pc = "idle" /\ staging.result \in {"true", "false"})

\* a call of stage returned true after it filled the staging buffer with a first chunk, flushed, and staged the rest
C32_Witness ==
  /\ staging.pc = "idle" /\ staging.result = "true" /\ staging.prior > 0
  /\ Len(staging.chunks) = 2 /\ staging.chunks[1].count > 0 /\ staging.chunks[2].count > 0 /\ staging.chunks[2].offset = 0


\* every memcpy among the calls ends inside the staging buffer
MemcpysFit(calls) == \A n \in Memcpys(calls) : calls[n][2] + calls[n][4] <= BUFFER_SIZE

\* the six calls of a flush, every one made, stand among the calls
WholeFlush(calls) ==
  \E n \in 1..Len(calls) :
    /\ n + Len(FlushCalls) - 1 <= Len(calls)
    /\ \A j \in 1..Len(FlushCalls) : calls[n + j - 1][1] = "call" /\ calls[n + j - 1][2] = FlushCalls[j]

\* a staging call of the stager: stageToBuffer (from giCreateGeomCache) or stageToImage
IsStagingOp(op) == op \in {"giCreateGeomCache", "stageToImage"}

\* C33 as stated: m_stagedBytes stays within 0 .. BUFFER_SIZE, every memcpy ends inside the staging buffer, and after a
\* staging call that returns true m_stagedBytes is below BUFFER_SIZE
C33_StagedBytesBelowSizeAfterStage ==
  /\ stager.m_stagedBytes \in 0..BUFFER_SIZE
  /\ MemcpysFit(last.calls)
  /\ (IsStagingOp(last.op) /\ last.result = "true") => stager.m_stagedBytes < BUFFER_SIZE

\* C33: m_stagedBytes stays within 0 .. BUFFER_SIZE and every memcpy ends inside the staging buffer; after a staging call
\* that returns true m_stagedBytes is below BUFFER_SIZE unless the call staged 0 bytes into a staging buffer that a
\* failed flush had left full; m_stagedBytes of a live stager goes back to 0 only in a call that made all six calls of
\* a flush, and a flush that returns false leaves it as it was
C33_StagedBytesInBounds ==
  /\ [](stager.m_stagedBytes \in 0..BUFFER_SIZE)
  /\ [](MemcpysFit(last.calls))
  /\ []((IsStagingOp(last.op) /\ last.result = "true" /\ (last.input[1] > 0 \/ last.input[2] < BUFFER_SIZE)) => stager.m_stagedBytes < BUFFER_SIZE)
  /\ [][(stager.exists /\ stager'.exists /\ stager.m_stagedBytes > 0 /\ stager'.m_stagedBytes = 0) => WholeFlush(last'.calls)]_vars
  /\ [][(last'.op = "flush" /\ last'.result = "false") => stager'.m_stagedBytes = stager.m_stagedBytes]_vars

\* a stageToBuffer that did not fit behind the bytes staged before it filled the buffer, flushed, and staged the rest
C33_Witness ==
  /\ last.op = "giCreateGeomCache" /\ last.result = "true"
  /\ last.input[2] > 0 /\ last.input[1] + last.input[2] > BUFFER_SIZE
  /\ WholeFlush(last.calls)
  /\ stager.m_stagedBytes > 0 /\ stager.m_stagedBytes < BUFFER_SIZE


\* C34: the command buffer of the stager is in the recording state, begun and not ended, whenever a copy command is
\* recorded into it: allocate and every return of flush, true or false, have left it recording
C34_CopiesRecordedWhileRecording ==
  \A k \in 1..Len(staging.chunks) : staging.chunks[k].recording


\* C35: no request to invalidate the framebuffer is lost: while a request waits for a render that starts after it, the
\* flag that makes the next giRender reset the sample offset is set
C35_NoInvalidationLost ==
  (render.pc = "idle" /\ render.waiting) => render.s_resetSampleOffset


\* C36: after _giResizeRenderBufferIfNeeded returns, true or false, each of buffer and stagingBuffer is 0 or the handle of
\* a live buffer, no handle has been given to cgpuDestroyBuffer when it was not live, and a bufferWidth and bufferHeight
\* above 0 go with two buffers held
C36_RenderBufferHandlesLive ==
  last.op = "_giResizeRenderBufferIfNeeded" =>
    /\ renderBuffer.buffer = 0 \/ resource_store_get(store["buffer"], renderBuffer.buffer)
    /\ renderBuffer.stagingBuffer = 0 \/ resource_store_get(store["buffer"], renderBuffer.stagingBuffer)
    /\ renderBuffer.destroyed = {}
    /\ (renderBuffer.bufferWidth > 0 /\ renderBuffer.bufferHeight > 0) =>
         /\ resource_store_get(store["buffer"], renderBuffer.buffer)
         /\ resource_store_get(store["buffer"], renderBuffer.stagingBuffer)


\* C37: after every _Execute that returns with the render buffer of the selected AOV marked converged, IsConverged()
\* returns true, also after an _Execute that found the versions and the background colour unchanged
C37_ConvergedBufferMeansConvergedPass ==
  (last.op = "_Execute" /\ last.input.marked) => IsConverged

\* C38: an _Execute that selects another AOV than the _Execute before it rebuilds the shader cache for that AOV and
\* renders, when the caches can be created, and the image of the buffer it marks converged was rendered for that AOV
C38_AovChangeRebuildsAndRenders ==
  (last.op = "_Execute" /\ last.input.aovId # "none" /\ last.input.differs) =>
    /\ last.input.able => (last.input.rebuilt /\ last.input.rendered /\ pass.m_shaderCache.aov_id = last.input.aovId)
    /\ \A a \in {"color", "normal"} :
         (_GetAovId(a) = last.input.aovId /\ last.input.marked) => pass.buffers[a].image = last.input.aovId

====
